---- MODULE Spec2Model ----
(***************************************************************************)
(* BrandCanvas timeline (src/src/components/canvas/CanvasTimeline.tsx):    *)
(* the React component that scans the fabric canvas for video and audio    *)
(* objects, keeps one track per media object, generates previews, drives   *)
(* playback of the media elements and maps time to pixels.                 *)
(*                                                                         *)
(* Time is counted in quarter seconds (TicksPerSecond ticks a second), so  *)
(* that the thumbnail time points i / (count - 1) * duration of a video of *)
(* up to ten seconds are whole numbers.  A media element's duration is a   *)
(* number of ticks, or NaN while its metadata is not loaded.               *)
(*                                                                         *)
(* React is modelled by what its closures see: every handler the component *)
(* defines reads the state of the render it was created in.  `rendered' is *)
(* that snapshot; Render commits the current state, runs the effects whose *)
(* dependencies changed and replaces the snapshot.  Timers, animation      *)
(* frames and awaited promises keep the snapshot they were created with.   *)
(***************************************************************************)
EXTENDS Integers, Sequences, FiniteSets, TLC

VARIABLES
    objs,                    \* fabric objects ever created: static attributes
    media,                   \* their HTMLMediaElements: duration, currentTime, paused
    flags,                   \* their fabric flags: visible, selectable, evented
    canvas,                  \* canvas.getObjects(): object references, bottom first
    visible,                 \* prop `visible' (the parent's showTimeline)
    mounted,                 \* the component has not been unmounted
    isPlaying, currentTime, duration,
    videoTracks, audioTracks,
    scale,                   \* pixels per second, a fraction <<num, den>>
    isGeneratingThumbnails, isGeneratingWaveform,
    nextTrackId,             \* source of fresh track ids
    rendered,                \* the state the current closures captured
    clickClosure,            \* the tracks handleTimelineClick's seekToTime captured
    tracksDirty,             \* a setVideoTracks/setAudioTracks call since the last render
    animationRef, frames,    \* animationRef.current and the pending frame callbacks
    timers,                  \* pending setTimeout callbacks
    passes,                  \* preview generation passes that are awaiting
    undoStack, redoStack,    \* the canvas page's history: snapshots JSON.stringify(canvas.toJSON())
    history,                 \* CanvasStore: the states given to addToHistory
    currentHistoryIndex,     \* CanvasStore: -1 without history
    isUndoRedoOperation,     \* isUndoRedoOperation.current
    restores,                \* loadFromJSON calls of undo / redo that wait for their images
    clientWidth,             \* scrollAreaRef.current.clientWidth, in pixels
    viewportWidth,           \* the width the component measured last
    isAutoScroll,
    scrollLeft,              \* the scroll offset the component displays, a fraction
    scrollPositionRef,       \* scrollPositionRef.current, a fraction
    lastOp                   \* history: the transport, zoom, track control or pass
                             \* step that ran last and its argument; none after
                             \* any other step

vars == <<objs, media, flags, canvas, visible, mounted, isPlaying, currentTime, duration,
          videoTracks, audioTracks, scale, isGeneratingThumbnails,
          isGeneratingWaveform, nextTrackId, rendered, clickClosure,
          tracksDirty, animationRef, frames, timers, passes, undoStack, redoStack,
          history, currentHistoryIndex, isUndoRedoOperation, restores,
          clientWidth, viewportWidth, isAutoScroll, scrollLeft, scrollPositionRef,
          lastOp>>

\* the scroll area and what the component keeps of it, but for the measured width
scrollVars == <<clientWidth, isAutoScroll, scrollLeft, scrollPositionRef>>

\* the flag of undo / redo and the canvas restores that are under way
restoreVars == <<isUndoRedoOperation, restores>>

\* the history of the CanvasStore (src/src/stores/CanvasStore.ts)
storeVars == <<history, currentHistoryIndex>>

(***************************************************************************)
(* Bounds of the model.                                                    *)
(***************************************************************************)
MaxObjs == 2          \* media objects created during a run
MaxSeconds == 2       \* longest media duration, in seconds
MaxIds == 1           \* distinct values of the optional object id
MaxPasses == 2        \* generation passes awaiting at the same time
MaxClipSeconds == 12  \* longest clip whose previews are generated, in seconds
MaxShapes == 2        \* shapes added to the canvas during a run
MaxStoreHistory == 3  \* entries of the store's history
MaxRestores == 2      \* restores of undo and redo that wait for images at the same time
MaxRestored == 2      \* objects that undo and redo have enlivened from snapshots

TicksPerSecond == 4

NaN == -1             \* HTMLMediaElement.duration before the metadata is loaded
NoId == 0             \* object.id is undefined
NoName == "none"      \* object.data.name is undefined
NoFrame == 0          \* animationRef.current is null

DefaultWidth == 440   \* the width of the scroll area while the window is not resized

Durations == {s * TicksPerSecond : s \in 1..MaxSeconds}
Names == {NoName, "clip"}
Ids == 0..MaxIds

Max(a, b) == IF a >= b THEN a ELSE b
Min(a, b) == IF a <= b THEN a ELSE b

\* numbers that are no whole numbers of the model's units are fractions <<num, den>>
RECURSIVE Gcd(_, _)
Gcd(a, b) == IF b = 0 THEN a ELSE Gcd(b, a % b)

Frac(n, d) == <<n \div Gcd(n, d), d \div Gcd(n, d)>>

FracLeq(x, y) == x[1] * y[2] <= y[1] * x[2]

FracAdd(x, y) == Frac(x[1] * y[2] + y[1] * x[2], x[2] * y[2])

FracSub(x, y) == Frac(x[1] * y[2] - y[1] * x[2], x[2] * y[2])

FracMin(x, y) == IF FracLeq(x, y) THEN x ELSE y
FracMax(x, y) == IF FracLeq(x, y) THEN y ELSE x

RECURSIVE SeqMax(_)
\* Math.max(...s) over numbers that are not negative; NaN if one of them is NaN
SeqMax(s) ==
    IF s = <<>> THEN 0
    ELSE IF Head(s) = NaN \/ SeqMax(Tail(s)) = NaN THEN NaN
         ELSE Max(Head(s), SeqMax(Tail(s)))

Range(s) == {s[i] : i \in 1..Len(s)}

RECURSIVE Durs(_)
Durs(tracks) == IF tracks = <<>> THEN <<>> ELSE <<Head(tracks).duration>> \o Durs(Tail(tracks))

\* element.duration stored as it is
RawDuration(d) == d

\* isNaN(element.duration) ? 0 : element.duration
NormalizeDuration(d) == IF d = NaN THEN 0 ELSE d

(***************************************************************************)
(* Tracks.                                                                 *)
(***************************************************************************)
NoWaveform == [count |-> 0, source |-> "none"]

NewVideoTrack(id, ref, O, M) ==
    [id |-> id, mediaObject |-> ref,
     name |-> IF O[ref].name = NoName THEN "Unnamed Video" ELSE O[ref].name,
     duration |-> NormalizeDuration(M[ref].duration),
     isVisible |-> TRUE, isLocked |-> FALSE, thumbnails |-> <<>>]

NewAudioTrack(id, ref, O, M) ==
    [id |-> id, mediaObject |-> ref,
     name |-> IF O[ref].name = NoName THEN "Unnamed Audio" ELSE O[ref].name,
     duration |-> NormalizeDuration(M[ref].duration),
     isVisible |-> TRUE, isLocked |-> FALSE, isMuted |-> FALSE,
     waveform |-> NoWaveform]

\* t.mediaObject === obj only
SameReference(t, ref, O) == t.mediaObject = ref

\* (obj.id && t.mediaObject.id === obj.id) || t.mediaObject === obj
Matches(t, ref, O) ==
    \/ O[ref].id # NoId /\ O[t.mediaObject].id = O[ref].id
    \/ t.mediaObject = ref

\* prevTracks.find(...): the index of the first matching track, 0 for undefined
FindTrack(prev, ref, O) ==
    IF \E i \in 1..Len(prev) : Matches(prev[i], ref, O)
    THEN CHOOSE i \in 1..Len(prev) :
            /\ Matches(prev[i], ref, O)
            /\ \A j \in 1..(i - 1) : ~Matches(prev[j], ref, O)
    ELSE 0

RefreshTrack(t, ref, M) ==
    [t EXCEPT !.duration = NormalizeDuration(M[ref].duration), !.mediaObject = ref]

RECURSIVE ScanTracks(_, _, _, _, _, _)
\* The updater given to setVideoTracks / setAudioTracks by updateMediaObjects:
\* one track per media object of the kind, in canvas order.  `nid' is the next
\* fresh track id; the result is the new track list.
ScanTracks(prev, refs, O, M, nid, kind) ==
    IF refs = <<>> THEN <<>>
    ELSE LET ref == Head(refs)
             k == FindTrack(prev, ref, O)
         IN IF k # 0
            THEN <<RefreshTrack(prev[k], ref, M)>>
                    \o ScanTracks(prev, Tail(refs), O, M, nid, kind)
            ELSE <<IF kind = "video" THEN NewVideoTrack(nid, ref, O, M)
                                     ELSE NewAudioTrack(nid, ref, O, M)>>
                    \o ScanTracks(prev, Tail(refs), O, M, nid + 1, kind)

\* how many tracks the scan creates
Created(prev, refs, O) == Cardinality({i \in 1..Len(refs) : FindTrack(prev, refs[i], O) = 0})

KindRefs(list, O, kind) == SelectSeq(list, LAMBDA r : O[r].kind = kind)

\* const allTracks = [...videoTracks, ...audioTracks]; the value setDuration gets,
\* or the duration kept when the guards of lines 304 and 306 fail
ClosureDuration(c, old) ==
    LET allTracks == c.videoTracks \o c.audioTracks
        maxDuration == SeqMax(Durs(allTracks))
    IN IF Len(allTracks) > 0 /\ maxDuration > 0 THEN maxDuration ELSE old

(***************************************************************************)
(* The canvas page's history (src/unnamed/part_002, lines 273-535).        *)
(***************************************************************************)
MaxHistory == 50

\* the fabric class of an object: a video is a fabric.Image over the video element,
\* an audio clip a fabric.Group of a rectangle and a label
FabricType(kind) ==
    IF kind = "video" THEN "image" ELSE IF kind = "audio" THEN "group" ELSE kind

\* object.toObject(): the standard properties only, here the class, what the object
\* shows (the image's src, the label's text) and `visible'; mediaElement, file,
\* data and id are custom properties, which canvas.toJSON() is not asked for
Serialized(o, f) == [type |-> FabricType(o.kind), src |-> o.src, visible |-> f.visible]

\* JSON.stringify(canvas.toJSON())
ToJSON(cv, O, F) == [i \in 1..Len(cv) |-> Serialized(O[cv[i]], F[cv[i]])]

\* [...prev, json], cut to the last 50 snapshots
Pushed(prev, json) ==
    LET newStack == Append(prev, json)
    IN IF Len(newStack) > MaxHistory
       THEN SubSeq(newStack, Len(newStack) - MaxHistory + 1, Len(newStack))
       ELSE newStack

\* saveToHistory() skips a snapshot equal to the last one its closure sees
Skipped(closure, json) ==
    Len(closure.undoStack) > 0 /\ json = closure.undoStack[Len(closure.undoStack)]

\* the undo stack after saveToHistory() called from a closure of the page
SavedUndo(closure, prev, json) ==
    IF Skipped(closure, json) THEN prev ELSE Pushed(prev, json)

\* the redo stack after it: cleared when the closure sees a redo stack with entries
SavedRedo(closure, prev, json) ==
    IF ~Skipped(closure, json) /\ Len(closure.redoStack) > 0 THEN <<>> ELSE prev

\* the closure of handleAdded / handleRemoved / handleModified: the effect that
\* registers them ran after the first render of the page (dependencies
\* [canvasSize]), where both stacks were still the initial []
FirstRender == [undoStack |-> <<>>, redoStack |-> <<>>]

\* the closure of a handler of the current render of the page
ThisRender == [undoStack |-> undoStack, redoStack |-> redoStack]

\* the stacks after handleAdded / handleRemoved / handleModified have run for
\* events that found the canvas as the snapshots snaps, one after the other
RECURSIVE EventsSaved(_, _)
EventsSaved(stacks, snaps) ==
    IF snaps = <<>> THEN stacks
    ELSE EventsSaved([undoStack |-> SavedUndo(FirstRender, stacks.undoStack, Head(snaps)),
                      redoStack |-> SavedRedo(FirstRender, stacks.redoStack, Head(snaps))],
                     Tail(snaps))

\* if (!isUndoRedoOperation.current) saveToHistory(), for each of the events
AfterEvents(snaps) ==
    IF isUndoRedoOperation THEN ThisRender ELSE EventsSaved(ThisRender, snaps)

(***************************************************************************)
(* The render snapshot.                                                    *)
(***************************************************************************)
Snapshot ==
    [visible |-> visible, isPlaying |-> isPlaying, duration |-> duration,
     videoTracks |-> videoTracks, audioTracks |-> audioTracks, scale |-> scale,
     isGeneratingThumbnails |-> isGeneratingThumbnails,
     isGeneratingWaveform |-> isGeneratingWaveform,
     viewportWidth |-> viewportWidth, isAutoScroll |-> isAutoScroll,
     scrollLeft |-> scrollLeft]

\* the closures of the last render see the current state
Committed == rendered = Snapshot

\* the step is a run of the handler op with the argument arg
Did(op, arg) == lastOp' = [op |-> op, arg |-> arg]

Init ==
    /\ objs = <<>>
    /\ media = <<>>
    /\ flags = <<>>
    /\ canvas = <<>>
    /\ visible = FALSE
    /\ mounted = TRUE
    /\ isPlaying = FALSE
    /\ currentTime = 0
    /\ duration = 0
    /\ videoTracks = <<>>
    /\ audioTracks = <<>>
    /\ scale = <<20, 1>>
    /\ isGeneratingThumbnails = FALSE
    /\ isGeneratingWaveform = FALSE
    /\ nextTrackId = 1
    /\ rendered = [visible |-> FALSE, isPlaying |-> FALSE, duration |-> 0,
                   videoTracks |-> <<>>, audioTracks |-> <<>>, scale |-> <<20, 1>>,
                   isGeneratingThumbnails |-> FALSE, isGeneratingWaveform |-> FALSE,
                   viewportWidth |-> 0, isAutoScroll |-> TRUE, scrollLeft |-> <<0, 1>>]
    /\ clickClosure = [videoTracks |-> <<>>, audioTracks |-> <<>>]
    /\ tracksDirty = FALSE
    /\ animationRef = NoFrame
    /\ frames = {}
    /\ timers = {}
    /\ passes = {}
    /\ undoStack = <<ToJSON(<<>>, <<>>, <<>>)>>
    /\ redoStack = <<>>
    /\ history = <<>>
    /\ currentHistoryIndex = -1
    /\ isUndoRedoOperation = FALSE
    /\ restores = <<>>
    /\ clientWidth = DefaultWidth
    /\ viewportWidth = 0
    /\ isAutoScroll = TRUE
    /\ scrollLeft = <<0, 1>>
    /\ scrollPositionRef = <<0, 1>>
    /\ lastOp = [op |-> "none", arg |-> 0]

(***************************************************************************)
(* The scan effect (lines 195-379) and the canvas events it listens to.    *)
(***************************************************************************)
\* the effect's handlers are registered: the last render had visible = true
Hooked == mounted /\ rendered.visible

\* updateMediaObjects(), called from a closure that captured c, with the canvas
\* holding the objects cv
updateMediaObjects(c, cv, O, M) ==
    LET videoObjects == KindRefs(cv, O, "video")
        audioObjects == KindRefs(cv, O, "audio")
        nv == Created(videoTracks, videoObjects, O)
        na == Created(audioTracks, audioObjects, O)
    IN /\ videoTracks' = ScanTracks(videoTracks, videoObjects, O, M, nextTrackId, "video")
       /\ audioTracks' = ScanTracks(audioTracks, audioObjects, O, M, nextTrackId + nv, "audio")
       /\ nextTrackId' = nextTrackId + nv + na
       /\ duration' = ClosureDuration(c, duration)
       /\ tracksDirty' = TRUE

\* the closure of generateVideoThumbnails / generateAudioWaveform for a track:
\* the track's id, object and duration, and the busy flag of the render
VideoTimer(t, c) ==
    [fn |-> "video", id |-> t.id, mediaObject |-> t.mediaObject,
     duration |-> t.duration, busy |-> c.isGeneratingThumbnails]

AudioTimer(t, c) ==
    [fn |-> "audio", id |-> t.id, mediaObject |-> t.mediaObject,
     duration |-> t.duration, busy |-> c.isGeneratingWaveform]

\* generateMediaVisualization(): a 500 ms timer for every track without previews
generateMediaVisualization(c, vt, at) ==
    {VideoTimer(vt[i], c) : i \in {j \in 1..Len(vt) :
            Len(vt[j].thumbnails) = 0 /\ vt[j].duration > 0}}
    \cup
    {AudioTimer(at[i], c) : i \in {j \in 1..Len(at) :
            at[j].waveform.count = 0 /\ at[j].duration > 0}}

VizTimer(c) ==
    [fn |-> "viz", id |-> 0, mediaObject |-> 0, duration |-> 0,
     busy |-> <<c.isGeneratingThumbnails, c.isGeneratingWaveform>>]

\* the object carries an HTMLVideoElement or an HTMLAudioElement as mediaElement
IsMedia(o) == o.kind \in {"video", "audio"}

\* the media objects created so far
MediaCount == Cardinality({r \in 1..Len(objs) : IsMedia(objs[r])})

\* the flags of a new fabric object
NewFlags(isVisible) ==
    [visible |-> isVisible, selectable |-> TRUE, evented |-> TRUE,
     lockMovementX |-> FALSE, lockMovementY |-> FALSE, lockRotation |-> FALSE,
     lockScalingX |-> FALSE, lockScalingY |-> FALSE]

\* canvas.add(obj) for a new media object and the timeline's handler of the
\* object:added event it fires
CanvasAdd(kind, id, name, dur, file) ==
    /\ MediaCount < MaxObjs
    /\ id = NoId \/ \A i \in 1..Len(canvas) : objs[canvas[i]].id # id
    /\ LET ref == Len(objs) + 1 IN
        /\ objs' = Append(objs, [kind |-> kind, id |-> id, name |-> name, file |-> file,
                                  src |-> ref])
        /\ media' = Append(media, [duration |-> dur, currentTime |-> 0, paused |-> TRUE,
                                    muted |-> (kind = "video"), src |-> ref,
                                    revoked |-> FALSE])
        /\ flags' = Append(flags, NewFlags(TRUE))
        /\ canvas' = Append(canvas, ref)
    /\ IF Hooked
       THEN \* handleObjectAdded
            /\ updateMediaObjects(rendered, canvas', objs', media')
            /\ timers' = timers \cup {VizTimer(rendered)}
       ELSE UNCHANGED <<videoTracks, audioTracks, nextTrackId, duration, tracksDirty, timers>>
    /\ UNCHANGED <<storeVars, restoreVars, scrollVars, viewportWidth, clickClosure, visible, mounted, isPlaying, currentTime, scale,
                   isGeneratingThumbnails, isGeneratingWaveform, rendered,
                   animationRef, frames, passes>>

\* canvas.add(obj) for a new media object; fires object:added, which the timeline
\* and the page's handleAdded handle
AddObject(kind, id, name, dur, file) ==
    /\ CanvasAdd(kind, id, name, dur, file)
    /\ undoStack' = AfterEvents(<<ToJSON(canvas', objs', flags')>>).undoStack
    /\ redoStack' = AfterEvents(<<ToJSON(canvas', objs', flags')>>).redoStack
    /\ Did("none", 0)

\* the src of a shape, and of a media element after src = ''
NoSrc == 0

\* objectURL.startsWith('blob:'): the URLs of the model are the object URLs that
\* the uploads created
IsBlob(src) == src # NoSrc

\* no track is filtered out
KeepTracks(tracks, ref) == tracks

\* prevTracks.filter(track => track.mediaObject !== removedObject)
WithoutObject(tracks, ref) == SelectSeq(tracks, LAMBDA t : t.mediaObject # ref)

\* the parent's object:removed handler (lines 382-411): pause(), src = '' (the
\* duration is NaN again), and then, for an object with a file, objectURL =
\* mediaElement.src, read from the element whose src has just been cleared, and
\* URL.revokeObjectURL(objectURL) if it starts with 'blob:'
ReleasedElement(m, file) ==
    LET cleared == [m EXCEPT !.duration = NaN, !.currentTime = 0, !.paused = TRUE,
                             !.src = NoSrc]
        objectURL == cleared.src
    IN [cleared EXCEPT !.revoked = @ \/ (file /\ IsBlob(objectURL))]

\* canvas.remove(obj); fires object:removed, which the page's cleanup handler, the
\* timeline and the page's handleRemoved handle
RemoveObject(ref) ==
    /\ ref \in Range(canvas)
    /\ canvas' = SelectSeq(canvas, LAMBDA r : r # ref)
    /\ media' = [media EXCEPT ![ref] = IF IsMedia(objs[ref]) THEN ReleasedElement(@, objs[ref].file) ELSE @]
    /\ IF Hooked /\ IsMedia(objs[ref])
       THEN \* handleObjectRemoved
            /\ IF objs[ref].kind = "video"
               THEN /\ videoTracks' = WithoutObject(videoTracks, ref)
                    /\ UNCHANGED audioTracks
               ELSE /\ audioTracks' = WithoutObject(audioTracks, ref)
                    /\ UNCHANGED videoTracks
            /\ tracksDirty' = TRUE
       ELSE UNCHANGED <<videoTracks, audioTracks, tracksDirty>>
    /\ undoStack' = AfterEvents(<<ToJSON(canvas', objs, flags)>>).undoStack
    /\ redoStack' = AfterEvents(<<ToJSON(canvas', objs, flags)>>).redoStack
    /\ Did("none", 0)
    /\ UNCHANGED <<storeVars, restoreVars, scrollVars, viewportWidth, clickClosure, objs, flags, visible, mounted, isPlaying, currentTime, duration, scale,
                   isGeneratingThumbnails, isGeneratingWaveform, nextTrackId,
                   rendered, animationRef, frames, timers, passes>>

\* the user moves, scales or rotates the object: fabric fires object:modified and
\* handleModified (lines 307-312) saves the canvas; what the transformation changes
\* of the object is not told apart, the snapshot is that of the same list of objects
\* (the step is recorded when it has saved)
handleModified(ref) ==
    /\ ref \in Range(canvas)
    /\ undoStack' = AfterEvents(<<ToJSON(canvas, objs, flags)>>).undoStack
    /\ redoStack' = AfterEvents(<<ToJSON(canvas, objs, flags)>>).redoStack
    /\ IF isUndoRedoOperation THEN Did("none", 0) ELSE Did("handleModified", Len(undoStack))
    /\ UNCHANGED <<storeVars, restoreVars, scrollVars, viewportWidth, clickClosure, objs, media, flags, canvas, visible,
                   mounted, isPlaying, currentTime, duration, videoTracks, audioTracks, scale,
                   isGeneratingThumbnails, isGeneratingWaveform, nextTrackId, rendered,
                   tracksDirty, animationRef, frames, timers, passes>>

(***************************************************************************)
(* The canvas page: uploads and undo / redo (src/unnamed/part_002).        *)
(***************************************************************************)
\* the media objects among the objects cv of the canvas
MediaOn(cv) == {r \in Range(cv) : IsMedia(objs[r])}

\* handleVideoUpload / handleAudioUpload, from onloadedmetadata on: canvas.add,
\* whose object:added runs handleAdded, and then the handler's own saveToHistory()
\* (the setTimeout that opens the timeline after a video is a ToggleTimeline step)
Upload(kind, dur) ==
    /\ CanvasAdd(kind, NoId, "clip", dur, TRUE)
    /\ LET json == ToJSON(canvas', objs', flags') IN
        /\ undoStack' = SavedUndo(ThisRender, AfterEvents(<<json>>).undoStack, json)
        /\ redoStack' = SavedRedo(ThisRender, AfterEvents(<<json>>).redoStack, json)
    /\ lastOp' = [op |-> "upload", arg |-> ToJSON(canvas, objs, flags)]

handleVideoUpload(dur) == Upload("video", dur)

handleAudioUpload(dur) == Upload("audio", dur)

\* an object without a media element
NoElement ==
    [duration |-> NaN, currentTime |-> 0, paused |-> TRUE, muted |-> FALSE,
     src |-> NoSrc, revoked |-> FALSE]

\* the shapes of the toolbar that the model tells apart
Shapes == {"rect", "circle"}

ShapeCount == Cardinality({r \in 1..Len(objs) : objs[r].kind \in Shapes})

\* handleAddShape (lines 655-778): canvas.add of an object without a media element,
\* which the timeline's handleObjectAdded ignores, then saveToHistory()
handleAddShape(shape) ==
    /\ ShapeCount < MaxShapes
    /\ objs' = Append(objs, [kind |-> shape, id |-> NoId, name |-> NoName, file |-> FALSE,
                             src |-> NoSrc])
    /\ media' = Append(media, NoElement)
    /\ flags' = Append(flags, NewFlags(TRUE))
    /\ canvas' = Append(canvas, Len(objs) + 1)
    /\ LET json == ToJSON(canvas', objs', flags') IN
        /\ undoStack' = SavedUndo(ThisRender, AfterEvents(<<json>>).undoStack, json)
        /\ redoStack' = SavedRedo(ThisRender, AfterEvents(<<json>>).redoStack, json)
    /\ Did("none", 0)
    /\ UNCHANGED <<storeVars, restoreVars, scrollVars, viewportWidth, clickClosure, visible, mounted, isPlaying, currentTime, duration,
                   videoTracks, audioTracks, scale, isGeneratingThumbnails,
                   isGeneratingWaveform, nextTrackId, rendered, tracksDirty,
                   animationRef, frames, timers, passes>>

\* fabric.util.enlivenObjects: an object per serialised object, of its class and
\* with its standard properties; an image whose src does not load (the src of a
\* video is the blob of a video file) is left out
Enlivened(json, loads) == SelectSeq(json, LAMBDA e : e.type # "image" \/ loads)

\* a snapshot with an image: enlivenObjects calls back from the onload / onerror
\* of the image, after the handler that called loadFromJSON has returned
HasImage(json) == \E i \in 1..Len(json) : json[i].type = "image"

\* the objects that the restores rs will put on the canvas
RECURSIVE Waiting(_)
Waiting(rs) ==
    IF rs = <<>> THEN 0
    ELSE Len(Enlivened(Head(rs).json, Head(rs).loads)) + Waiting(Tail(rs))

\* the bounds of the model leave room for one more restore, of json
Restorable(json, loads) ==
    /\ Len(restores) < MaxRestores
    /\ Len(objs) - MediaCount + Waiting(restores) + Len(Enlivened(json, loads)) <= MaxRestored

\* canvas.loadFromJSON(json, callback), once the objects are enlivened: clear()
\* removes every object, which fires object:removed for the page's cleanup handler
\* and for the timeline, and the enlivened objects are inserted, which fires
\* object:added for objects that carry no mediaElement
loadFromJSON(json, loads) ==
    LET removed == MediaOn(canvas)
        new == Enlivened(json, loads)
    IN /\ objs' = objs \o [i \in 1..Len(new) |->
                        [kind |-> new[i].type, id |-> NoId, name |-> NoName,
                         file |-> FALSE, src |-> new[i].src]]
       /\ media' = [r \in 1..Len(media) |->
                        IF r \in removed THEN ReleasedElement(media[r], objs[r].file)
                        ELSE media[r]]
                    \o [i \in 1..Len(new) |-> NoElement]
       /\ flags' = flags \o [i \in 1..Len(new) |-> NewFlags(new[i].visible)]
       /\ canvas' = [i \in 1..Len(new) |-> Len(objs) + i]
       /\ IF Hooked /\ removed # {}
          THEN \* handleObjectRemoved for every media object
               /\ videoTracks' = SelectSeq(videoTracks, LAMBDA t : t.mediaObject \notin removed)
               /\ audioTracks' = SelectSeq(audioTracks, LAMBDA t : t.mediaObject \notin removed)
               /\ tracksDirty' = TRUE
          ELSE UNCHANGED <<videoTracks, audioTracks, tracksDirty>>

\* what handleUndo finds: the canvas, the stacks, and the number of objects with a
\* media element; `added' holds the canvas before the upload that ran just before
BeforeUndo ==
    [added |-> IF lastOp.op = "upload" THEN <<lastOp.arg>> ELSE <<>>,
     canvas |-> ToJSON(canvas, objs, flags),
     undoStack |-> undoStack, redoStack |-> redoStack,
     media |-> Cardinality(MediaOn(canvas))]

\* isUndoRedoOperation.current = true and loadFromJSON(json, callback) in handleUndo
\* and handleRedo. Without an image the objects are enlivened, the canvas is
\* restored and the callback resets the flag before the handler returns, and the
\* step is recorded as op; with an image the restore waits
Restore(json, loads, op, before) ==
    IF HasImage(json)
    THEN /\ restores' = Append(restores, [json |-> json, loads |-> loads, op |-> op,
                                          before |-> before])
         /\ isUndoRedoOperation' = TRUE
         /\ Did("none", 0)
         /\ UNCHANGED <<objs, media, flags, canvas, videoTracks, audioTracks, tracksDirty>>
    ELSE /\ loadFromJSON(json, loads)
         /\ isUndoRedoOperation' = FALSE
         /\ lastOp' = [op |-> op, arg |-> before]
         /\ UNCHANGED restores

\* handleUndo (lines 481-508); the Undo button is disabled with fewer than 2 states
handleUndo(loads) ==
    /\ Len(undoStack) >= 2
    /\ LET currentState == undoStack[Len(undoStack)]
           previousState == undoStack[Len(undoStack) - 1]
       IN /\ Restorable(previousState, loads)
          /\ undoStack' = SubSeq(undoStack, 1, Len(undoStack) - 1)
          /\ redoStack' = Append(redoStack, currentState)
          /\ Restore(previousState, loads, "handleUndo", BeforeUndo)
    /\ UNCHANGED <<storeVars, scrollVars, viewportWidth, clickClosure, visible, mounted, isPlaying, currentTime, duration, scale,
                   isGeneratingThumbnails, isGeneratingWaveform, nextTrackId,
                   rendered, animationRef, frames, timers, passes>>

\* handleRedo (lines 511-535); the Redo button is disabled with an empty redo stack
handleRedo(loads) ==
    /\ Len(redoStack) > 0
    /\ LET nextState == redoStack[Len(redoStack)]
       IN /\ Restorable(nextState, loads)
          /\ redoStack' = SubSeq(redoStack, 1, Len(redoStack) - 1)
          /\ undoStack' = Append(undoStack, nextState)
          /\ Restore(nextState, loads, "handleRedo",
                     IF lastOp.op = "handleUndo" THEN <<lastOp.arg>> ELSE <<>>)
    /\ UNCHANGED <<storeVars, scrollVars, viewportWidth, clickClosure, visible, mounted, isPlaying, currentTime, duration, scale,
                   isGeneratingThumbnails, isGeneratingWaveform, nextTrackId,
                   rendered, animationRef, frames, timers, passes>>

\* the images of a waiting restore have loaded or failed: the canvas is cleared and
\* the enlivened objects are inserted, each event running the page's handleRemoved
\* or handleAdded, and the callback of loadFromJSON resets the flag
Loaded(i) ==
    /\ i \in 1..Len(restores)
    /\ loadFromJSON(restores[i].json, restores[i].loads)
    /\ LET n == Len(canvas)
           cleared == [k \in 1..n |-> ToJSON(SubSeq(canvas, k + 1, n), objs, flags)]
           inserted == [k \in 1..Len(canvas') |->
                            ToJSON(SubSeq(canvas', 1, k), objs', flags')]
       IN /\ undoStack' = AfterEvents(cleared \o inserted).undoStack
          /\ redoStack' = AfterEvents(cleared \o inserted).redoStack
    /\ restores' = [k \in 1..(Len(restores) - 1) |->
                        IF k < i THEN restores[k] ELSE restores[k + 1]]
    /\ isUndoRedoOperation' = FALSE
    /\ lastOp' = [op |-> restores[i].op, arg |-> restores[i].before]
    /\ UNCHANGED <<storeVars, scrollVars, viewportWidth, clickClosure, visible, mounted, isPlaying, currentTime, duration, scale,
                   isGeneratingThumbnails, isGeneratingWaveform, nextTrackId,
                   rendered, animationRef, frames, timers, passes>>

(***************************************************************************)
(* The CanvasStore (src/src/stores/CanvasStore.ts): its history. The map   *)
(* of objects and the selection take no part in it.                        *)
(***************************************************************************)
\* the states that addToHistory is given
StoreStates == {1, 2}

\* what a store action finds: its argument (0 without one), the history, the
\* index, and the action before it with the index that one found
BeforeStore(state) ==
    [state |-> state, history |-> history, currentHistoryIndex |-> currentHistoryIndex,
     last |-> lastOp.op,
     lastIndex |-> IF lastOp.op \in {"addToHistory", "undo", "redo", "cleanup"}
                   THEN lastOp.arg.currentHistoryIndex ELSE -1]

\* everything but the store
pageVars ==
    <<objs, media, flags, canvas, visible, mounted, isPlaying, currentTime, duration,
      videoTracks, audioTracks, scale, isGeneratingThumbnails, isGeneratingWaveform,
      nextTrackId, rendered, clickClosure, tracksDirty, animationRef, frames, timers,
      passes, undoStack, redoStack, restoreVars, scrollVars, viewportWidth>>

\* the whole history is kept
Unsliced(h, index) == h

\* self.history.slice(0, self.currentHistoryIndex + 1)
Sliced(h, index) == SubSeq(h, 1, index + 1)

\* addToHistory(state)
addToHistory(state) ==
    /\ Len(history) < MaxStoreHistory
    /\ LET newHistory == Append(Sliced(history, currentHistoryIndex), state)
       IN history' = newHistory
    /\ currentHistoryIndex' = currentHistoryIndex + 1
    /\ Did("addToHistory", BeforeStore(state))
    /\ UNCHANGED pageVars

\* undo is also allowed at index 0
UndoAtZero(index) == index >= 0

\* if (self.currentHistoryIndex > 0)
CanUndo(index) == index > 0

\* undo()
undo ==
    /\ currentHistoryIndex' = IF CanUndo(currentHistoryIndex)
                              THEN currentHistoryIndex - 1 ELSE currentHistoryIndex
    /\ Did("undo", BeforeStore(0))
    /\ UNCHANGED <<history, pageVars>>

\* redo()
redo ==
    /\ currentHistoryIndex' = IF currentHistoryIndex < Len(history) - 1
                              THEN currentHistoryIndex + 1 ELSE currentHistoryIndex
    /\ Did("redo", BeforeStore(0))
    /\ UNCHANGED <<history, pageVars>>

\* cleanup()
cleanup ==
    /\ history' = <<>>
    /\ currentHistoryIndex' = -1
    /\ Did("cleanup", BeforeStore(0))
    /\ UNCHANGED pageVars

\* the element of an object on the canvas fires loadedmetadata
LoadMetadata(ref, dur) ==
    /\ ref \in Range(canvas)
    /\ IsMedia(objs[ref])
    /\ media[ref].duration = NaN
    /\ media' = [media EXCEPT ![ref].duration = dur]
    /\ Did("none", 0)
    /\ UNCHANGED <<storeVars, restoreVars, scrollVars, viewportWidth, undoStack, redoStack, clickClosure, objs, flags, canvas, visible, mounted, isPlaying, currentTime, duration,
                   videoTracks, audioTracks, scale, isGeneratingThumbnails,
                   isGeneratingWaveform, nextTrackId, rendered, tracksDirty,
                   animationRef, frames, timers, passes>>

\* the parent flips showTimeline
ToggleTimeline ==
    /\ mounted
    /\ visible' = ~visible
    /\ Did("none", 0)
    /\ UNCHANGED <<storeVars, restoreVars, scrollVars, viewportWidth, undoStack, redoStack, clickClosure, objs, media, flags, canvas, mounted, isPlaying, currentTime, duration,
                   videoTracks, audioTracks, scale, isGeneratingThumbnails,
                   isGeneratingWaveform, nextTrackId, rendered, tracksDirty,
                   animationRef, frames, timers, passes>>

(***************************************************************************)
(* Rendering: the effects of lines 195-379 and 621-710.                    *)
(***************************************************************************)
\* the playback effect got past its guard (line 623) and returned a cleanup
LoopActive(c) == (Len(c.videoTracks) # 0 \/ Len(c.audioTracks) # 0) /\ c.isPlaying

FrameIds(fs) == {f.id : f \in fs}

\* requestAnimationFrame returns a handle no pending or remembered request has
FreshFrame(fs, ref) ==
    CHOOSE i \in 1..(Cardinality(fs) + 2) :
        /\ i \notin FrameIds(fs) \cup {ref}
        /\ \A j \in 1..(i - 1) : j \in FrameIds(fs) \cup {ref}

\* the request is left pending
KeepFrames(fs, ref) == fs

\* cancelAnimationFrame(animationRef.current) when it is not null
CancelFrame(fs, ref) == {f \in fs : f.id # ref}

Render ==
    /\ mounted
    /\ tracksDirty \/ rendered # Snapshot
    /\ LET c == Snapshot
           scanRuns == tracksDirty \/ rendered.visible # visible
           loopRuns == \/ tracksDirty
                       \/ rendered.isPlaying # isPlaying
                       \/ rendered.duration # duration
                       \/ rendered.scale # scale
                       \/ rendered.viewportWidth # viewportWidth
                       \/ rendered.isAutoScroll # isAutoScroll
           cleaned == IF loopRuns /\ LoopActive(rendered)
                      THEN CancelFrame(frames, animationRef) ELSE frames
           refAfter == IF loopRuns /\ LoopActive(rendered) THEN NoFrame ELSE animationRef
       IN /\ rendered' = c
          \* handleTimelineClick = useCallback(..., [scale, duration]) (line 821)
          /\ clickClosure' = IF rendered.scale # scale \/ rendered.duration # duration
                             THEN [videoTracks |-> videoTracks, audioTracks |-> audioTracks]
                             ELSE clickClosure
          /\ IF scanRuns /\ visible
             THEN /\ updateMediaObjects(c, canvas, objs, media)
                  /\ timers' = timers \cup
                        generateMediaVisualization(c, videoTracks', audioTracks')
             ELSE /\ tracksDirty' = FALSE
                  /\ UNCHANGED <<videoTracks, audioTracks, nextTrackId, duration, timers>>
          /\ IF loopRuns /\ LoopActive(c)
             THEN LET id == FreshFrame(cleaned, refAfter) IN
                  /\ frames' = cleaned \cup {[id |-> id, closure |-> c]}
                  /\ animationRef' = id
             ELSE /\ frames' = cleaned
                  /\ animationRef' = refAfter
          \* the effect that measures the viewport (lines 173-192, [visible])
          /\ viewportWidth' = IF rendered.visible # visible /\ visible
                              THEN clientWidth ELSE viewportWidth
    /\ Did("none", 0)
    /\ UNCHANGED <<storeVars, restoreVars, scrollVars, undoStack, redoStack, objs, media, flags, canvas, visible, mounted, isPlaying, currentTime,
                   scale, isGeneratingThumbnails, isGeneratingWaveform, passes>>

(***************************************************************************)
(* Preview generation (lines 313-339 and 382-618).                         *)
(***************************************************************************)
CeilDiv(a, b) == (a + b - 1) \div b

\* Math.max(5, Math.ceil(track.duration / 2)), the duration in seconds
NumThumbnails(d) == Max(5, CeilDiv(d, 2 * TicksPerSecond))

\* (i / (numThumbnails - 1)) * track.duration, to the tick
TimePoint(i, n, d) == (i * d) \div (n - 1)

\* the time point divided by the number of thumbnails
EvenSlice(i, n, d) == Frac(i * d, n)

\* (i / (numThumbnails - 1)) * track.duration, exactly
ExactTimePoint(i, n, d) == Frac(i * d, n - 1)

\* 150 segments whatever the duration
FixedSamples(d) == 150

\* Math.max(150, Math.ceil(track.duration * 15)), the duration in seconds
NumSamples(d) == Max(150, CeilDiv(d * 15, TicksPerSecond))

\* the assignment is lost
KeepTime(m, t) == m

\* element.currentTime = t: before the metadata is loaded the value is kept as the
\* default playback start position, afterwards the seek is clamped to the resource
SetTime(m, t) ==
    [m EXCEPT !.currentTime = IF m.duration = NaN THEN t
                              ELSE Max(0, Min(t, m.duration))]

FreePass == CHOOSE i \in 1..(Cardinality(passes) + 1) : \A p \in passes : p.pid # i

\* prevTracks.map(t => t.id === track.id ? { ...t, thumbnails } : t)
WithThumbnails(tracks, id, thumbnails) ==
    [i \in 1..Len(tracks) |->
        IF tracks[i].id = id THEN [tracks[i] EXCEPT !.thumbnails = thumbnails]
        ELSE tracks[i]]

\* every track gets the waveform
WaveformForAll(tracks, id, waveform) ==
    [i \in 1..Len(tracks) |-> [tracks[i] EXCEPT !.waveform = waveform]]

\* prevTracks.map(t => t.id === track.id ? { ...t, waveform } : t)
WithWaveform(tracks, id, waveform) ==
    [i \in 1..Len(tracks) |->
        IF tracks[i].id = id THEN [tracks[i] EXCEPT !.waveform = waveform]
        ELSE tracks[i]]

\* createStylizedWaveform's loop: numSamples synthetic segments
StylizedWaveform(d) == [count |-> NumSamples(d), source |-> "stylized"]

\* generateAudioWaveform's loop over the decoded channel: numSamples segments
DecodedWaveform(d) == [count |-> NumSamples(d), source |-> "decoded"]

\* the 800 ms timer of handleObjectAdded fires: generateMediaVisualization()
FireViz(tm) ==
    /\ tm \in timers /\ tm.fn = "viz"
    /\ IF mounted
       THEN /\ timers' = (timers \ {tm}) \cup
                generateMediaVisualization(
                    [isGeneratingThumbnails |-> tm.busy[1],
                     isGeneratingWaveform |-> tm.busy[2]], videoTracks, audioTracks)
            /\ tracksDirty' = TRUE
       ELSE /\ timers' = timers \ {tm}
            /\ UNCHANGED tracksDirty
    /\ Did("none", 0)
    /\ UNCHANGED <<storeVars, restoreVars, scrollVars, viewportWidth, undoStack, redoStack, clickClosure, objs, media, flags, canvas, visible, mounted, isPlaying, currentTime,
                   duration, videoTracks, audioTracks, scale, isGeneratingThumbnails,
                   isGeneratingWaveform, nextTrackId, rendered, animationRef, frames,
                   passes>>

\* a timer calls generateVideoThumbnails(track) (lines 382-418, up to the first await)
FireVideo(tm) ==
    /\ tm \in timers /\ tm.fn = "video"
    /\ IF tm.busy
       THEN \* setTimeout(() => generateVideoThumbnails(track), 1000): the same closure
            UNCHANGED <<timers, passes, media, isGeneratingThumbnails>>
       ELSE /\ Cardinality(passes) < MaxPasses
            /\ timers' = timers \ {tm}
            /\ isGeneratingThumbnails' = (IF mounted THEN TRUE ELSE isGeneratingThumbnails)
            /\ passes' = passes \cup
                 {[pid |-> FreePass, kind |-> "video", id |-> tm.id,
                   mediaObject |-> tm.mediaObject, duration |-> tm.duration,
                   i |-> 0, originalTime |-> media[tm.mediaObject].currentTime,
                   thumbnails |-> <<>>]}
            /\ media' = [media EXCEPT ![tm.mediaObject] =
                            SetTime(@, TimePoint(0, NumThumbnails(tm.duration), tm.duration))]
    /\ Did("none", 0)
    /\ UNCHANGED <<storeVars, restoreVars, scrollVars, viewportWidth, undoStack, redoStack, clickClosure, objs, flags, canvas, visible, mounted, isPlaying, currentTime, duration,
                   videoTracks, audioTracks, scale, isGeneratingWaveform, nextTrackId,
                   rendered, tracksDirty, animationRef, frames>>

\* the awaited seek settles, by `seeked' or by the 500 ms timeout (lines 421-458)
SeekSettled(p) ==
    /\ p \in passes /\ p.kind = "video"
    /\ LET n == NumThumbnails(p.duration)
           \* drawImage + toDataURL: the frame taken after the seek to time point i
           thumbnails == Append(p.thumbnails, ExactTimePoint(p.i, n, p.duration))
       IN IF p.i + 1 < n
          THEN /\ passes' = (passes \ {p}) \cup
                     {[p EXCEPT !.i = p.i + 1, !.thumbnails = thumbnails]}
               /\ media' = [media EXCEPT ![p.mediaObject] =
                               SetTime(@, TimePoint(p.i + 1, n, p.duration))]
               /\ UNCHANGED <<videoTracks, tracksDirty, isGeneratingThumbnails>>
          ELSE /\ passes' = passes \ {p}
               /\ media' = [media EXCEPT ![p.mediaObject] = SetTime(@, p.originalTime)]
               /\ IF mounted
                  THEN /\ videoTracks' = WithThumbnails(videoTracks, p.id, thumbnails)
                       /\ tracksDirty' = TRUE
                       /\ isGeneratingThumbnails' = FALSE
                  ELSE UNCHANGED <<videoTracks, tracksDirty, isGeneratingThumbnails>>
    /\ Did("SeekSettled", p.id)
    /\ UNCHANGED <<storeVars, restoreVars, scrollVars, viewportWidth, undoStack, redoStack, clickClosure, objs, flags, canvas, visible, mounted, isPlaying, currentTime, duration,
                   audioTracks, scale, isGeneratingWaveform, nextTrackId, rendered,
                   animationRef, frames, timers>>

\* the video fires `error' while the seek is awaited (lines 428-432, 462-466)
SeekError(p) ==
    /\ p \in passes /\ p.kind = "video"
    /\ passes' = passes \ {p}
    /\ isGeneratingThumbnails' = (IF mounted THEN FALSE ELSE isGeneratingThumbnails)
    /\ Did("SeekError", p.id)
    /\ UNCHANGED <<storeVars, restoreVars, scrollVars, viewportWidth, undoStack, redoStack, clickClosure, objs, media, flags, canvas, visible, mounted, isPlaying, currentTime,
                   duration, videoTracks, audioTracks, scale, isGeneratingWaveform,
                   nextTrackId, rendered, tracksDirty, animationRef, frames, timers>>

\* a timer calls generateAudioWaveform(track) (lines 470-495, up to the first await)
FireAudio(tm) ==
    /\ tm \in timers /\ tm.fn = "audio"
    /\ IF tm.busy
       THEN \* setTimeout(() => generateAudioWaveform(track), 1000): the same closure
            UNCHANGED <<timers, passes, audioTracks, tracksDirty, isGeneratingWaveform>>
       ELSE /\ timers' = timers \ {tm}
            /\ IF ~objs[tm.mediaObject].file
               THEN \* no file: createStylizedWaveform(track); return; finally
                    /\ IF mounted
                       THEN /\ audioTracks' = WithWaveform(audioTracks, tm.id,
                                                  StylizedWaveform(tm.duration))
                            /\ tracksDirty' = TRUE
                       ELSE UNCHANGED <<audioTracks, tracksDirty>>
                    /\ isGeneratingWaveform' = (IF mounted THEN FALSE ELSE isGeneratingWaveform)
                    /\ UNCHANGED passes
               ELSE /\ Cardinality(passes) < MaxPasses
                    /\ isGeneratingWaveform' = (IF mounted THEN TRUE ELSE isGeneratingWaveform)
                    /\ passes' = passes \cup
                         {[pid |-> FreePass, kind |-> "audio", id |-> tm.id,
                           mediaObject |-> tm.mediaObject, duration |-> tm.duration,
                           i |-> 0, originalTime |-> 0, thumbnails |-> <<>>]}
                    /\ UNCHANGED <<audioTracks, tracksDirty>>
    /\ Did("none", 0)
    /\ UNCHANGED <<storeVars, restoreVars, scrollVars, viewportWidth, undoStack, redoStack, clickClosure, objs, media, flags, canvas, visible, mounted, isPlaying, currentTime,
                   duration, videoTracks, scale, isGeneratingThumbnails, nextTrackId,
                   rendered, animationRef, frames>>

\* the pass ends without its finally block
AbandonAudio(p, waveform) ==
    /\ passes' = passes \ {p}
    /\ IF mounted
       THEN /\ audioTracks' = WithWaveform(audioTracks, p.id, waveform)
            /\ tracksDirty' = TRUE
       ELSE UNCHANGED <<audioTracks, tracksDirty>>
    /\ UNCHANGED <<storeVars, restoreVars, scrollVars, viewportWidth, undoStack, redoStack,
                   clickClosure, objs, media, flags, canvas, visible, mounted, isPlaying,
                   currentTime, duration, videoTracks, scale, isGeneratingThumbnails,
                   isGeneratingWaveform, nextTrackId, rendered, animationRef, frames,
                   timers>>

\* the end of an audio pass: the waveform goes to the track with the pass's id
FinishAudio(p, waveform) ==
    /\ passes' = passes \ {p}
    /\ IF mounted
       THEN /\ audioTracks' = WithWaveform(audioTracks, p.id, waveform)
            /\ tracksDirty' = TRUE
            /\ isGeneratingWaveform' = FALSE
       ELSE UNCHANGED <<audioTracks, tracksDirty, isGeneratingWaveform>>
    /\ UNCHANGED <<storeVars, restoreVars, scrollVars, viewportWidth, undoStack, redoStack, clickClosure, objs, media, flags, canvas, visible, mounted, isPlaying, currentTime,
                   duration, videoTracks, scale, isGeneratingThumbnails, nextTrackId,
                   rendered, animationRef, frames, timers>>

\* arrayBuffer() and decodeAudioData() resolve (lines 495-563)
DecodeDone(p) ==
    /\ p \in passes /\ p.kind = "audio"
    /\ FinishAudio(p, DecodedWaveform(p.duration))
    /\ Did("DecodeDone", p.id)

\* arrayBuffer() or decodeAudioData() rejects (lines 565-570)
DecodeFailed(p) ==
    /\ p \in passes /\ p.kind = "audio"
    /\ FinishAudio(p, StylizedWaveform(p.duration))
    /\ Did("DecodeFailed", p.id)

(***************************************************************************)
(* Track controls (lines 868-967).                                         *)
(***************************************************************************)
TrackIds(tracks) == {tracks[i].id : i \in 1..Len(tracks)}

\* the object of the track with the id, for the side effect inside the updater
TrackObject(tracks, trackId) ==
    tracks[CHOOSE i \in 1..Len(tracks) : tracks[i].id = trackId].mediaObject

IsTrackVisible(tracks, trackId) ==
    tracks[CHOOSE i \in 1..Len(tracks) : tracks[i].id = trackId].isVisible

IsTrackLocked(tracks, trackId) ==
    tracks[CHOOSE i \in 1..Len(tracks) : tracks[i].id = trackId].isLocked

IsTrackMuted(tracks, trackId) ==
    tracks[CHOOSE i \in 1..Len(tracks) : tracks[i].id = trackId].isMuted

FlipVisible(tracks, trackId) ==
    [i \in 1..Len(tracks) |->
        IF tracks[i].id = trackId THEN [tracks[i] EXCEPT !.isVisible = ~@] ELSE tracks[i]]

FlipLocked(tracks, trackId) ==
    [i \in 1..Len(tracks) |->
        IF tracks[i].id = trackId THEN [tracks[i] EXCEPT !.isLocked = ~@] ELSE tracks[i]]

FlipMuted(tracks, trackId) ==
    [i \in 1..Len(tracks) |->
        IF tracks[i].id = trackId THEN [tracks[i] EXCEPT !.isMuted = ~@] ELSE tracks[i]]

toggleTrackVisibility(trackId) ==
    /\ mounted /\ visible /\ Committed
    /\ trackId \in TrackIds(videoTracks) \cup TrackIds(audioTracks)
    /\ IF trackId \in TrackIds(rendered.videoTracks)
       THEN /\ videoTracks' = FlipVisible(videoTracks, trackId)
            /\ flags' = [flags EXCEPT ![TrackObject(videoTracks, trackId)].visible =
                            ~IsTrackVisible(videoTracks, trackId)]
            /\ UNCHANGED audioTracks
       ELSE /\ audioTracks' = FlipVisible(audioTracks, trackId)
            /\ flags' = [flags EXCEPT ![TrackObject(audioTracks, trackId)].visible =
                            ~IsTrackVisible(audioTracks, trackId)]
            /\ UNCHANGED videoTracks
    /\ tracksDirty' = TRUE
    /\ Did("toggleTrackVisibility", trackId)
    /\ UNCHANGED <<storeVars, restoreVars, scrollVars, viewportWidth, undoStack, redoStack, clickClosure, objs, media, canvas, visible, mounted, isPlaying, currentTime, duration,
                   scale, isGeneratingThumbnails, isGeneratingWaveform, nextTrackId,
                   rendered, animationRef, frames, timers, passes>>

toggleTrackLock(trackId) ==
    /\ mounted /\ visible /\ Committed
    /\ trackId \in TrackIds(videoTracks) \cup TrackIds(audioTracks)
    /\ IF trackId \in TrackIds(rendered.videoTracks)
       THEN /\ videoTracks' = FlipLocked(videoTracks, trackId)
            /\ flags' = [flags EXCEPT
                   ![TrackObject(videoTracks, trackId)].selectable =
                        IsTrackLocked(videoTracks, trackId),
                   ![TrackObject(videoTracks, trackId)].evented =
                        IsTrackLocked(videoTracks, trackId)]
            /\ UNCHANGED audioTracks
       ELSE /\ audioTracks' = FlipLocked(audioTracks, trackId)
            /\ flags' = [flags EXCEPT
                   ![TrackObject(audioTracks, trackId)].selectable =
                        IsTrackLocked(audioTracks, trackId),
                   ![TrackObject(audioTracks, trackId)].evented =
                        IsTrackLocked(audioTracks, trackId)]
            /\ UNCHANGED videoTracks
    /\ tracksDirty' = TRUE
    /\ Did("toggleTrackLock", trackId)
    /\ UNCHANGED <<storeVars, restoreVars, scrollVars, viewportWidth, undoStack, redoStack, clickClosure, objs, media, canvas, visible, mounted, isPlaying, currentTime, duration,
                   scale, isGeneratingThumbnails, isGeneratingWaveform, nextTrackId,
                   rendered, animationRef, frames, timers, passes>>

toggleAudioMute(trackId) ==
    /\ mounted /\ visible /\ Committed
    /\ trackId \in TrackIds(audioTracks)
    /\ audioTracks' = FlipMuted(audioTracks, trackId)
    /\ media' = [media EXCEPT ![TrackObject(audioTracks, trackId)].muted =
                    ~IsTrackMuted(audioTracks, trackId)]
    /\ tracksDirty' = TRUE
    /\ Did("toggleAudioMute", trackId)
    /\ UNCHANGED <<storeVars, restoreVars, scrollVars, viewportWidth, undoStack, redoStack, clickClosure, objs, flags, canvas, visible, mounted, isPlaying, currentTime,
                   duration, videoTracks, scale, isGeneratingThumbnails,
                   isGeneratingWaveform, nextTrackId, rendered, animationRef, frames,
                   timers, passes>>

\* ShapeEditor's toggleLock for the selected object (ShapeEditor.tsx, lines 282-291)
toggleLock(selectedObject) ==
    /\ selectedObject \in Range(canvas)
    /\ flags' = [flags EXCEPT ![selectedObject].lockMovementX = ~@,
                              ![selectedObject].lockMovementY = ~@,
                              ![selectedObject].lockRotation = ~@,
                              ![selectedObject].lockScalingX = ~@,
                              ![selectedObject].lockScalingY = ~@]
    /\ Did("toggleLock", selectedObject)
    /\ UNCHANGED <<storeVars, restoreVars, scrollVars, viewportWidth, undoStack, redoStack, clickClosure, objs, media, canvas, visible, mounted,
                   isPlaying, currentTime, duration, videoTracks, audioTracks, scale,
                   isGeneratingThumbnails, isGeneratingWaveform, nextTrackId,
                   rendered, tracksDirty, animationRef, frames, timers, passes>>

\* canvas.getObjects().indexOf(object), counted from 0
IndexOf(objects, object) == CHOOSE i \in 0..(Len(objects) - 1) : objects[i + 1] = object

\* the object changes places with the object at the index
SwapTo(objects, object, index) ==
    [i \in 1..Len(objects) |->
        IF i = index + 1 THEN object
        ELSE IF i = IndexOf(objects, object) + 1 THEN objects[index + 1]
        ELSE objects[i]]

\* fabric's canvas.moveTo(object, index): the object is taken out of the list and
\* spliced in at the index; no event is fired
MoveTo(objects, object, index) ==
    LET rest == SelectSeq(objects, LAMBDA r : r # object)
    IN SubSeq(rest, 1, index) \o <<object>> \o SubSeq(rest, index + 1, Len(rest))

\* what a layer operation is applied to: the selected object and the object list
Layered(selectedObject) == [object |-> selectedObject, objects |-> canvas]

\* ShapeEditor's bringToFront (lines 346-356)
bringToFront(selectedObject) ==
    /\ selectedObject \in Range(canvas)
    /\ LET maxIndex == Len(canvas) - 1
       IN canvas' = MoveTo(canvas, selectedObject, maxIndex)
    /\ Did("bringToFront", Layered(selectedObject))
    /\ UNCHANGED <<storeVars, restoreVars, scrollVars, viewportWidth, undoStack, redoStack, clickClosure, objs, media, flags, visible, mounted,
                   isPlaying, currentTime, duration, videoTracks, audioTracks, scale,
                   isGeneratingThumbnails, isGeneratingWaveform, nextTrackId,
                   rendered, tracksDirty, animationRef, frames, timers, passes>>

\* ShapeEditor's sendToBack (lines 358-364)
sendToBack(selectedObject) ==
    /\ selectedObject \in Range(canvas)
    /\ canvas' = MoveTo(canvas, selectedObject, 0)
    /\ Did("sendToBack", Layered(selectedObject))
    /\ UNCHANGED <<storeVars, restoreVars, scrollVars, viewportWidth, undoStack, redoStack, clickClosure, objs, media, flags, visible, mounted,
                   isPlaying, currentTime, duration, videoTracks, audioTracks, scale,
                   isGeneratingThumbnails, isGeneratingWaveform, nextTrackId,
                   rendered, tracksDirty, animationRef, frames, timers, passes>>

\* ShapeEditor's bringForward (lines 366-376)
bringForward(selectedObject) ==
    /\ selectedObject \in Range(canvas)
    /\ LET currentIndex == IndexOf(canvas, selectedObject)
           maxIndex == Len(canvas) - 1
       IN IF currentIndex < maxIndex
          THEN canvas' = MoveTo(canvas, selectedObject, currentIndex + 1)
          ELSE UNCHANGED canvas
    /\ Did("bringForward", Layered(selectedObject))
    /\ UNCHANGED <<storeVars, restoreVars, scrollVars, viewportWidth, undoStack, redoStack, clickClosure, objs, media, flags, visible, mounted,
                   isPlaying, currentTime, duration, videoTracks, audioTracks, scale,
                   isGeneratingThumbnails, isGeneratingWaveform, nextTrackId,
                   rendered, tracksDirty, animationRef, frames, timers, passes>>

\* ShapeEditor's sendBackward (lines 378-387)
sendBackward(selectedObject) ==
    /\ selectedObject \in Range(canvas)
    /\ LET currentIndex == IndexOf(canvas, selectedObject)
       IN IF currentIndex > 0
          THEN canvas' = MoveTo(canvas, selectedObject, currentIndex - 1)
          ELSE UNCHANGED canvas
    /\ Did("sendBackward", Layered(selectedObject))
    /\ UNCHANGED <<storeVars, restoreVars, scrollVars, viewportWidth, undoStack, redoStack, clickClosure, objs, media, flags, visible, mounted,
                   isPlaying, currentTime, duration, videoTracks, audioTracks, scale,
                   isGeneratingThumbnails, isGeneratingWaveform, nextTrackId,
                   rendered, tracksDirty, animationRef, frames, timers, passes>>

(***************************************************************************)
(* Transport (lines 621-710 and 737-821).                                  *)
(***************************************************************************)
RECURSIVE Objects(_)
\* the media objects of a list of tracks
Objects(tracks) ==
    IF tracks = <<>> THEN {} ELSE {Head(tracks).mediaObject} \cup Objects(Tail(tracks))

TrackObjects(c) == Objects(c.videoTracks) \cup Objects(c.audioTracks)

\* element.play(): playback that has ended starts again from the beginning
Play(m) ==
    [m EXCEPT !.paused = FALSE,
              !.currentTime = IF m.duration # NaN /\ @ >= m.duration THEN 0 ELSE @]

\* pause() has no effect
StillPlaying(m) == m

Pause(m) == [m EXCEPT !.paused = TRUE]

\* the Play and Reset buttons are disabled without tracks (lines 988, 996)
HasTracks == Len(videoTracks) # 0 \/ Len(audioTracks) # 0

togglePlayback ==
    /\ mounted /\ visible /\ Committed /\ HasTracks
    /\ LET newIsPlaying == ~rendered.isPlaying IN
        /\ isPlaying' = newIsPlaying
        /\ media' = [r \in 1..Len(media) |->
                        IF r \in TrackObjects(rendered)
                        THEN IF newIsPlaying THEN Play(media[r]) ELSE Pause(media[r])
                        ELSE media[r]]
    /\ Did("togglePlayback", 0)
    /\ UNCHANGED <<storeVars, restoreVars, scrollVars, viewportWidth, undoStack, redoStack, objs, flags, canvas, visible, mounted, currentTime, duration,
                   videoTracks, audioTracks, scale, isGeneratingThumbnails,
                   isGeneratingWaveform, nextTrackId, rendered, clickClosure,
                   tracksDirty, animationRef, frames, timers, passes>>

resetPlayback ==
    /\ mounted /\ visible /\ Committed /\ HasTracks
    /\ isPlaying' = (IF rendered.isPlaying THEN FALSE ELSE isPlaying)
    /\ currentTime' = 0
    /\ media' = [r \in 1..Len(media) |->
                    IF r \in TrackObjects(rendered)
                    THEN SetTime(Pause(media[r]), 0) ELSE media[r]]
    /\ Did("resetPlayback", currentTime)
    /\ UNCHANGED <<storeVars, restoreVars, scrollVars, viewportWidth, undoStack, redoStack, objs, flags, canvas, visible, mounted, duration,
                   videoTracks, audioTracks, scale, isGeneratingThumbnails,
                   isGeneratingWaveform, nextTrackId, rendered, clickClosure,
                   tracksDirty, animationRef, frames, timers, passes>>

\* seekToTime(time), called by handleTimelineClick with
\* time = (x + scrollPositionRef.current) / scale for the clicked pixel x >= 0
seekToTime(time) ==
    /\ mounted /\ visible /\ Committed
    /\ currentTime' = time
    /\ media' = [r \in 1..Len(media) |->
                    IF r \in TrackObjects(clickClosure)
                    THEN SetTime(media[r], time) ELSE media[r]]
    /\ Did("seekToTime", time)
    /\ UNCHANGED <<storeVars, restoreVars, scrollVars, viewportWidth, undoStack, redoStack, objs, flags, canvas, visible, mounted, isPlaying, duration,
                   videoTracks, audioTracks, scale, isGeneratingThumbnails,
                   isGeneratingWaveform, nextTrackId, rendered, clickClosure,
                   tracksDirty, animationRef, frames, timers, passes>>

\* a playing element advances by a second; at its end it pauses itself
Advance(ref) ==
    /\ ref \in 1..Len(media)
    /\ ~media[ref].paused
    /\ media[ref].duration # NaN
    /\ media[ref].currentTime < media[ref].duration
    /\ LET t == Min(media[ref].currentTime + TicksPerSecond, media[ref].duration) IN
       media' = [media EXCEPT ![ref].currentTime = t,
                              ![ref].paused = (t >= media[ref].duration)]
    /\ Did("none", 0)
    /\ UNCHANGED <<storeVars, restoreVars, scrollVars, viewportWidth, undoStack, redoStack, objs, flags, canvas, visible, mounted, isPlaying, currentTime, duration,
                   videoTracks, audioTracks, scale, isGeneratingThumbnails,
                   isGeneratingWaveform, nextTrackId, rendered, clickClosure,
                   tracksDirty, animationRef, frames, timers, passes>>

\* let maxCurrentTime = 0; for (track ...) if (element.currentTime) max(...)
MaxCurrentTime(c) ==
    LET times == {media[r].currentTime : r \in TrackObjects(c)}
    IN IF times = {} THEN 0
       ELSE Max(0, CHOOSE t \in times : \A u \in times : u <= t)

HasActiveMedia(c) == \E r \in TrackObjects(c) : media[r].currentTime # 0

\* maxCurrentTime * scale, in pixels
TimePosition(time, sc) == Frac(time * sc[1], TicksPerSecond * sc[2])

\* the playhead is within 20% of the viewport width of an edge of the viewport
NearEdge(timePosition, currentScrollLeft, width) ==
    \/ ~FracLeq(timePosition, FracAdd(currentScrollLeft, Frac(4 * width, 5)))
    \/ ~FracLeq(FracAdd(currentScrollLeft, Frac(width, 5)), timePosition)

\* timePosition - (viewportWidth / 2): the playhead is centred
Centred(timePosition, width) == FracSub(timePosition, Frac(width, 2))

\* updatePlayback, the animation frame callback of the loop (lines 625-698)
updatePlayback(f) ==
    /\ f \in frames
    /\ LET c == f.closure
           maxCurrentTime == MaxCurrentTime(c)
           rest == frames \ {f}
       IN /\ currentTime' = (IF HasActiveMedia(c) THEN maxCurrentTime ELSE currentTime)
          /\ IF maxCurrentTime >= c.duration
             THEN /\ isPlaying' = FALSE
                  /\ media' = [r \in 1..Len(media) |->
                                  IF r \in TrackObjects(c) THEN Pause(media[r])
                                  ELSE media[r]]
                  /\ frames' = rest
                  /\ UNCHANGED animationRef
             ELSE IF c.isPlaying
                  THEN LET id == FreshFrame(rest, animationRef) IN
                       /\ frames' = rest \cup {[id |-> id, closure |-> c]}
                       /\ animationRef' = id
                       /\ UNCHANGED <<isPlaying, media>>
                  ELSE /\ frames' = rest
                       /\ UNCHANGED <<isPlaying, media, animationRef>>
    /\ LET c == f.closure
           timePosition == TimePosition(MaxCurrentTime(c), c.scale)
       IN IF /\ c.isAutoScroll /\ mounted /\ rendered.visible
             /\ NearEdge(timePosition, scrollPositionRef, c.viewportWidth)
          THEN /\ scrollPositionRef' = Centred(timePosition, c.viewportWidth)
               /\ scrollLeft' = Centred(timePosition, c.viewportWidth)
          ELSE UNCHANGED <<scrollPositionRef, scrollLeft>>
    /\ Did("updatePlayback", IF MaxCurrentTime(f.closure) >= f.closure.duration THEN 1 ELSE 0)
    /\ UNCHANGED <<storeVars, restoreVars, clientWidth, isAutoScroll, viewportWidth, undoStack, redoStack, objs, flags, canvas, visible, mounted, duration,
                   videoTracks, audioTracks, scale, isGeneratingThumbnails,
                   isGeneratingWaveform, nextTrackId, rendered, clickClosure,
                   tracksDirty, timers, passes>>

\* the parent unmounts the timeline: the cleanups of both effects run
Unmount ==
    /\ mounted
    /\ mounted' = FALSE
    /\ IF LoopActive(rendered)
       THEN /\ frames' = CancelFrame(frames, animationRef)
            /\ animationRef' = NoFrame
       ELSE UNCHANGED <<frames, animationRef>>
    /\ Did("none", 0)
    /\ UNCHANGED <<storeVars, restoreVars, scrollVars, viewportWidth, undoStack, redoStack, objs, media, flags, canvas, visible, isPlaying, currentTime, duration,
                   videoTracks, audioTracks, scale, isGeneratingThumbnails,
                   isGeneratingWaveform, nextTrackId, rendered, clickClosure,
                   tracksDirty, timers, passes>>

(***************************************************************************)
(* Zoom (lines 823-846).  The scale is the fraction <<num, den>>.          *)
(***************************************************************************)
MaxScale == 200
MinScale == 5

\* Math.min(prevScale * 1.5, 200)
ZoomedIn(prevScale) == FracMin(Frac(prevScale[1] * 3, prevScale[2] * 2), <<MaxScale, 1>>)

\* Math.max(prevScale / 1.5, 5)
ZoomedOut(prevScale) == FracMax(Frac(prevScale[1] * 2, prevScale[2] * 3), <<MinScale, 1>>)

\* availableWidth / duration without the lower limit
UnclampedFit(width, d) == Frac((width - 40) * TicksPerSecond, d)

\* Math.max(5, availableWidth / duration), the duration in seconds
FitScale(width, d) ==
    FracMax(<<MinScale, 1>>, Frac((width - 40) * TicksPerSecond, d))

\* the Zoom In button is disabled at scale >= 200 (line 1014)
zoomIn ==
    /\ mounted /\ visible /\ Committed
    /\ ~FracLeq(<<MaxScale, 1>>, scale)
    /\ scale' = ZoomedIn(scale)
    /\ Did("zoomIn", 0)
    /\ UNCHANGED <<storeVars, restoreVars, scrollVars, viewportWidth, undoStack, redoStack, objs, media, flags, canvas, visible, mounted, isPlaying, currentTime,
                   duration, videoTracks, audioTracks, isGeneratingThumbnails,
                   isGeneratingWaveform, nextTrackId, rendered, clickClosure,
                   tracksDirty, animationRef, frames, timers, passes>>

\* the Zoom Out button is disabled at scale <= 5 (line 1032)
zoomOut ==
    /\ mounted /\ visible /\ Committed
    /\ ~FracLeq(scale, <<MinScale, 1>>)
    /\ scale' = ZoomedOut(scale)
    /\ Did("zoomOut", 0)
    /\ UNCHANGED <<storeVars, restoreVars, scrollVars, viewportWidth, undoStack, redoStack, objs, media, flags, canvas, visible, mounted, isPlaying, currentTime,
                   duration, videoTracks, audioTracks, isGeneratingThumbnails,
                   isGeneratingWaveform, nextTrackId, rendered, clickClosure,
                   tracksDirty, animationRef, frames, timers, passes>>

\* zoomToFit (lines 832-846), the scroll area being clientWidth pixels wide; the
\* scrollLeft it assigns is that of the scroll area's root, not of the viewport
zoomToFit ==
    /\ mounted /\ visible /\ Committed
    /\ IF rendered.duration <= 0
       THEN UNCHANGED <<scale, scrollLeft, scrollPositionRef>>
       ELSE /\ scale' = FitScale(clientWidth, rendered.duration)
            /\ scrollPositionRef' = <<0, 1>>
            /\ scrollLeft' = <<0, 1>>
    /\ Did("zoomToFit", [duration |-> rendered.duration, scale |-> scale,
                         scrollLeft |-> scrollLeft, scrollPositionRef |-> scrollPositionRef])
    /\ UNCHANGED <<storeVars, restoreVars, clientWidth, isAutoScroll, viewportWidth, undoStack, redoStack, objs, media, flags, canvas, visible, mounted, isPlaying, currentTime,
                   duration, videoTracks, audioTracks, isGeneratingThumbnails,
                   isGeneratingWaveform, nextTrackId, rendered, clickClosure,
                   tracksDirty, animationRef, frames, timers, passes>>

\* the window is resized while the timeline is shown: updateViewportSize (lines
\* 176-181) measures the scroll area again
Resize(width) ==
    /\ mounted /\ visible /\ Committed
    /\ width # clientWidth
    /\ clientWidth' = width
    /\ viewportWidth' = width
    /\ Did("none", 0)
    /\ UNCHANGED <<storeVars, restoreVars, isAutoScroll, scrollLeft, scrollPositionRef, undoStack, redoStack, objs, media,
                   flags, canvas, visible, mounted, isPlaying, currentTime, duration, scale,
                   videoTracks, audioTracks, isGeneratingThumbnails,
                   isGeneratingWaveform, nextTrackId, rendered, clickClosure,
                   tracksDirty, animationRef, frames, timers, passes>>

\* the Auto-scroll button (line 1066)
toggleAutoScroll ==
    /\ mounted /\ visible /\ Committed
    /\ isAutoScroll' = ~rendered.isAutoScroll
    /\ Did("none", 0)
    /\ UNCHANGED <<storeVars, restoreVars, clientWidth, viewportWidth, scrollLeft, scrollPositionRef, undoStack, redoStack,
                   objs, media, flags, canvas, visible, mounted, isPlaying, currentTime,
                   duration, scale, videoTracks, audioTracks, isGeneratingThumbnails,
                   isGeneratingWaveform, nextTrackId, rendered, clickClosure,
                   tracksDirty, animationRef, frames, timers, passes>>

\* the viewport fires `scroll' at the offset newScrollLeft (handleScroll, lines
\* 715-726): the state follows only when it is more than 5 pixels off
handleScroll(newScrollLeft) ==
    /\ mounted /\ visible /\ Committed
    /\ scrollPositionRef' = <<newScrollLeft, 1>>
    /\ scrollLeft' = IF ~FracLeq(FracSub(rendered.scrollLeft, <<newScrollLeft, 1>>), <<5, 1>>)
                        \/ ~FracLeq(FracSub(<<newScrollLeft, 1>>, rendered.scrollLeft), <<5, 1>>)
                     THEN <<newScrollLeft, 1>> ELSE scrollLeft
    /\ Did("none", 0)
    /\ UNCHANGED <<storeVars, restoreVars, clientWidth, viewportWidth, isAutoScroll, undoStack, redoStack,
                   objs, media, flags, canvas, visible, mounted, isPlaying, currentTime,
                   duration, scale, videoTracks, audioTracks, isGeneratingThumbnails,
                   isGeneratingWaveform, nextTrackId, rendered, clickClosure,
                   tracksDirty, animationRef, frames, timers, passes>>

(***************************************************************************)
(* Specifications.  Each one lets the environment use the part of the      *)
(* inputs its claims are about.                                            *)
(***************************************************************************)
SeekTimes == {s * TicksPerSecond : s \in 0..(MaxSeconds + 1)}
ClientWidths == {440, 1040}
ScrollOffsets == {3, 60}
LongClip == 100 * TicksPerSecond

\* the scanner: objects come and go, metadata loads, the timeline is shown and hidden
NextScan ==
    \/ \E kind \in {"video", "audio"}, id \in Ids, name \in Names,
          dur \in Durations \cup {NaN} :
            AddObject(kind, id, name, dur, TRUE)
    \/ \E ref \in 1..Len(objs) : RemoveObject(ref)
    \/ \E ref \in 1..Len(objs), dur \in Durations : LoadMetadata(ref, dur)
    \/ ToggleTimeline
    \/ Render

SpecScan == Init /\ [][NextScan]_vars

\* the transport: play, pause, seek, reset and the frame loop over media of
\* different lengths
NextTransport ==
    \/ \E kind \in {"video", "audio"}, dur \in Durations \cup {NaN} :
            AddObject(kind, NoId, "clip", dur, TRUE)
    \/ ToggleTimeline
    \/ Render
    \/ togglePlayback
    \/ resetPlayback
    \/ \E time \in SeekTimes : seekToTime(time)
    \/ \E ref \in 1..Len(objs) : Advance(ref)
    \/ \E f \in frames : updatePlayback(f)

SpecTransport == Init /\ [][NextTransport]_vars

\* the life of the frame loop: playback is toggled while tracks come and go, the
\* scale changes once and the timeline is hidden or unmounted
NextLoop ==
    \/ \E kind \in {"video", "audio"} :
            AddObject(kind, NoId, "clip", TicksPerSecond, TRUE)
    \/ \E ref \in 1..Len(objs) : RemoveObject(ref)
    \/ ToggleTimeline
    \/ Render
    \/ togglePlayback
    \/ \E ref \in 1..Len(objs) : Advance(ref)
    \/ \E f \in frames : updatePlayback(f)
    \/ scale = <<20, 1>> /\ zoomIn
    \/ Unmount

SpecLoop == Init /\ [][NextLoop]_vars

\* re-scans: objects with and without ids come and go while the timeline is shown
\* or hidden, and their tracks are locked, hidden, muted and given a waveform;
\* the first object is named and one second long, a later one unnamed and longer,
\* and the controls of the first track are used
NextRescan ==
    \/ \E kind \in {"video", "audio"}, id \in Ids :
            AddObject(kind, id, IF Len(objs) = 0 THEN "clip" ELSE NoName,
                      (Len(objs) + 1) * TicksPerSecond, FALSE)
    \/ \E ref \in 1..Len(objs) : RemoveObject(ref)
    \/ ToggleTimeline
    \/ Render
    \/ \E tm \in timers : FireAudio(tm)
    \/ toggleTrackVisibility(1)
    \/ toggleTrackLock(1)
    \/ toggleAudioMute(1)

SpecRescan == Init /\ [][NextRescan]_vars

\* zooming a timeline that holds media
NextZoom ==
    \/ \E dur \in Durations \cup {LongClip} : AddObject("video", NoId, "clip", dur, TRUE)
    \/ ToggleTimeline
    \/ Render
    \/ zoomIn
    \/ zoomOut
    \/ zoomToFit
    \/ \E w \in ClientWidths : Resize(w)
    \/ \E x \in ScrollOffsets : handleScroll(x)

SpecZoom == Init /\ [][NextZoom]_vars

\* preview generation for audio objects and at most one video object that are on
\* the canvas when the timeline is shown
NextGen ==
    \/ \E kind \in {"video", "audio"}, file \in BOOLEAN :
            /\ kind = "video" => file
            /\ \A r \in 1..Len(objs) : objs[r].kind # "video"
            /\ ~visible /\ ~Hooked
            /\ AddObject(kind, NoId, "clip", TicksPerSecond, file)
    \/ ~visible /\ ToggleTimeline
    \/ Render
    \/ \E tm \in timers : FireVideo(tm)
    \/ \E tm \in timers : FireAudio(tm)
    \/ \E p \in passes : SeekSettled(p)
    \/ \E p \in passes : SeekError(p)
    \/ \E p \in passes : DecodeDone(p)
    \/ \E p \in passes : DecodeFailed(p)

SpecGen == Init /\ [][NextGen]_vars

\* clips are deleted from a shown timeline while previews are generated
NextOrphan ==
    \/ \E kind \in {"video", "audio"} :
            /\ \A r \in 1..Len(objs) : objs[r].kind # "video"
            /\ ~visible /\ ~Hooked
            /\ AddObject(kind, NoId, "clip", TicksPerSecond, TRUE)
    \/ \E ref \in 1..Len(objs) : passes # {} /\ RemoveObject(ref)
    \/ ~visible /\ Len(objs) > 0 /\ ToggleTimeline
    \/ Render
    \/ \E tm \in timers : FireVideo(tm)
    \/ \E tm \in timers : FireAudio(tm)
    \/ \E p \in passes : SeekSettled(p)
    \/ \E p \in passes : SeekError(p)
    \/ \E p \in passes : DecodeDone(p)
    \/ \E p \in passes : DecodeFailed(p)

SpecOrphan == Init /\ [][NextOrphan]_vars

\* the same, with the browser's scheduling: a pending timer fires, an awaited seek
\* settles or fails (the 500 ms timeout settles it at the latest), an awaited
\* decode resolves or rejects, and React renders a changed state
SpecGenFair ==
    /\ SpecGen
    /\ WF_vars(Render)
    /\ WF_vars(\E tm \in timers : FireVideo(tm))
    /\ WF_vars(\E tm \in timers : FireAudio(tm))
    /\ WF_vars(\E p \in passes : SeekSettled(p) \/ SeekError(p))
    /\ WF_vars(\E p \in passes : DecodeDone(p) \/ DecodeFailed(p))

\* the track controls and the editor's lock on the objects of the tracks, and
\* playback of tracks that are shown or hidden
NextControls ==
    \/ \E kind \in {"video", "audio"} :
            AddObject(kind, NoId, "clip", TicksPerSecond, TRUE)
    \/ ToggleTimeline
    \/ Render
    \/ \E id \in 1..nextTrackId : toggleTrackVisibility(id)
    \/ \E id \in 1..nextTrackId : toggleTrackLock(id)
    \/ \E ref \in 1..Len(objs) : toggleLock(ref)
    \/ togglePlayback

SpecControls == Init /\ [][NextControls]_vars

\* the layers of the canvas: media objects and shapes are added and reordered
\* with the four layer buttons
NextLayers ==
    \/ \E kind \in {"video", "audio"} : AddObject(kind, NoId, "clip", TicksPerSecond, TRUE)
    \/ \E shape \in Shapes : handleAddShape(shape)
    \/ \E ref \in 1..Len(objs) : bringToFront(ref)
    \/ \E ref \in 1..Len(objs) : sendToBack(ref)
    \/ \E ref \in 1..Len(objs) : bringForward(ref)
    \/ \E ref \in 1..Len(objs) : sendBackward(ref)

SpecLayers == Init /\ [][NextLayers]_vars

\* the limit of the history: one clip is uploaded and transformed again and
\* again, undone and redone
NextLimit ==
    \/ /\ restores = <<>>
       /\ \/ Len(objs) = 0 /\ handleVideoUpload(TicksPerSecond)
          \/ \E ref \in 1..Len(objs) : handleModified(ref)
          \/ \E loads \in BOOLEAN : handleUndo(loads)
          \/ \E loads \in BOOLEAN : handleRedo(loads)
    \/ \E i \in 1..Len(restores) : Loaded(i)

SpecLimit == Init /\ [][NextLimit]_vars

\* the store's history from createCanvasStore() on
NextStore ==
    \/ \E state \in StoreStates : addToHistory(state)
    \/ undo
    \/ redo
    \/ cleanup

SpecStore == Init /\ [][NextStore]_vars

\* undo and redo pressed while earlier restores still wait for their images
NextRestore ==
    \/ Len(objs) = 0 /\ handleVideoUpload(TicksPerSecond)
    \/ ShapeCount = 0 /\ handleAddShape("rect")
    \/ \E loads \in BOOLEAN : handleUndo(loads)
    \/ \E loads \in BOOLEAN : handleRedo(loads)
    \/ \E i \in 1..Len(restores) : Loaded(i)

SpecRestore == Init /\ [][NextRestore]_vars

\* the page's history: media are uploaded and deleted, undone and redone, while
\* the timeline is shown or hidden
NextHistory ==
    \/ /\ restores = <<>>
       /\ \/ handleVideoUpload(TicksPerSecond)
          \/ handleAudioUpload(TicksPerSecond)
          \/ \E ref \in 1..Len(objs) : RemoveObject(ref)
          \/ \E loads \in BOOLEAN : handleUndo(loads)
          \/ \E loads \in BOOLEAN : handleRedo(loads)
          \/ Len(objs) = 0 /\ ~visible /\ ToggleTimeline
          \/ Render
    \/ \E i \in 1..Len(restores) : Loaded(i)

SpecHistory == Init /\ [][NextHistory]_vars

\* the previews of clips of one, ten and more than ten seconds: at most one video
\* and one audio clip are on the canvas when the timeline is shown
PreviewDurations ==
    {TicksPerSecond, 10 * TicksPerSecond, 10 * TicksPerSecond + 1,
     MaxClipSeconds * TicksPerSecond}

NextPreview ==
    \/ \E kind \in {"video", "audio"}, dur \in PreviewDurations, file \in BOOLEAN :
            /\ kind = "video" => file
            /\ \A r \in 1..Len(objs) : objs[r].kind # kind
            /\ ~visible /\ ~Hooked
            /\ AddObject(kind, NoId, "clip", dur, file)
    \/ ~visible /\ ToggleTimeline
    \/ Render
    \/ \E tm \in timers : FireVideo(tm)
    \/ \E tm \in timers : FireAudio(tm)
    \/ \E p \in passes : SeekSettled(p)
    \/ \E p \in passes : SeekError(p)
    \/ \E p \in passes : DecodeDone(p)
    \/ \E p \in passes : DecodeFailed(p)

SpecPreview == Init /\ [][NextPreview]_vars

(***************************************************************************)
(* The whole component.                                                    *)
(***************************************************************************)
Next ==
    \/ NextStore
    \/ \E kind \in {"video", "audio"}, id \in Ids, name \in Names,
          dur \in Durations \cup {NaN}, file \in BOOLEAN :
            AddObject(kind, id, name, dur, file)
    \/ \E ref \in 1..Len(objs) : RemoveObject(ref)
    \/ \E ref \in 1..Len(objs), dur \in Durations : LoadMetadata(ref, dur)
    \/ ToggleTimeline
    \/ Render
    \/ \E tm \in timers : FireViz(tm)
    \/ \E tm \in timers : FireVideo(tm)
    \/ \E tm \in timers : FireAudio(tm)
    \/ \E p \in passes : SeekSettled(p)
    \/ \E p \in passes : SeekError(p)
    \/ \E p \in passes : DecodeDone(p)
    \/ \E p \in passes : DecodeFailed(p)
    \/ \E id \in 1..nextTrackId : toggleTrackVisibility(id)
    \/ \E id \in 1..nextTrackId : toggleTrackLock(id)
    \/ \E id \in 1..nextTrackId : toggleAudioMute(id)
    \/ \E ref \in 1..Len(objs) : toggleLock(ref)
    \/ \E dur \in Durations : handleVideoUpload(dur)
    \/ \E dur \in Durations : handleAudioUpload(dur)
    \/ \E loads \in BOOLEAN : handleUndo(loads)
    \/ \E loads \in BOOLEAN : handleRedo(loads)
    \/ \E i \in 1..Len(restores) : Loaded(i)
    \/ \E ref \in 1..Len(objs) : handleModified(ref)
    \/ \E shape \in Shapes : handleAddShape(shape)
    \/ \E ref \in 1..Len(objs) : bringToFront(ref)
    \/ \E ref \in 1..Len(objs) : sendToBack(ref)
    \/ \E ref \in 1..Len(objs) : bringForward(ref)
    \/ \E ref \in 1..Len(objs) : sendBackward(ref)
    \/ togglePlayback
    \/ resetPlayback
    \/ \E time \in SeekTimes : seekToTime(time)
    \/ \E ref \in 1..Len(objs) : Advance(ref)
    \/ \E f \in frames : updatePlayback(f)
    \/ Unmount
    \/ zoomIn
    \/ zoomOut
    \/ zoomToFit
    \/ \E w \in ClientWidths : Resize(w)
    \/ \E x \in ScrollOffsets : handleScroll(x)
    \/ toggleAutoScroll

Spec == Init /\ [][Next]_vars

(***************************************************************************)
(* Properties of the scanner, checked under SpecScan.                      *)
(***************************************************************************)
AllTracks == videoTracks \o audioTracks

\* the scan effect of the last render ran on the tracks as they are now: the
\* scanner has processed every event so far
Scanned ==
    /\ rendered.visible
    /\ rendered.videoTracks = videoTracks
    /\ rendered.audioTracks = audioTracks

\* C1: once the scanner has processed the additions and removals, the timeline
\* duration is the maximum of the durations of the current tracks, 0 without tracks
C1_DurationIsMax == Scanned => duration = SeqMax(Durs(AllTracks))

\* C1, the case the code gets wrong: the last track was removed and the scanner
\* has run again
C1_Emptied == Scanned /\ AllTracks = <<>> /\ duration > 0

\* C10: no track carries NaN as its duration, also while its element reports NaN,
\* and the tracks stored with 0 do not change the maximum the scanner takes for
\* the timeline duration: it is the longest loaded duration
C10_NoNaNDuration ==
    /\ \A i \in 1..Len(AllTracks) : AllTracks[i].duration \in Nat
    /\ duration \in Nat
    /\ (Scanned /\ \E i \in 1..Len(AllTracks) : AllTracks[i].duration > 0)
            => duration = SeqMax(SelectSeq(Durs(AllTracks), LAMBDA d : d > 0))

\* C10's case: a track stored with 0 for an element that reports NaN, next to a
\* loaded track that decides the timeline duration
C10_Witness ==
    /\ Scanned
    /\ \E i, j \in 1..Len(AllTracks) :
            /\ media[AllTracks[i].mediaObject].duration = NaN
            /\ AllTracks[i].mediaObject \in Range(canvas)
            /\ AllTracks[i].duration = 0
            /\ AllTracks[j].duration > 0
            /\ duration = AllTracks[j].duration

(***************************************************************************)
(* Properties of re-scans, checked under SpecRescan.                       *)
(***************************************************************************)
\* the step ran updateMediaObjects: the scan effect or handleObjectAdded
Rescanned ==
    \/ Render /\ visible /\ (tracksDirty \/ rendered.visible # visible)
    \/ Hooked /\ Len(objs') = Len(objs) + 1

\* every object of the kind on the canvas cv that a track of prev belongs to, by
\* its id or else by reference, has that track in new, changed in nothing but the
\* duration and the object reference
Kept(prev, new, cv, O, kind) ==
    \A i \in 1..Len(prev), ref \in Range(cv) :
        (/\ O[ref].kind = kind
         /\ \/ prev[i].mediaObject = ref
            \/ O[ref].id # NoId /\ O[prev[i].mediaObject].id = O[ref].id)
        => \E j \in 1..Len(new) :
              new[j] = [prev[i] EXCEPT !.duration = new[j].duration, !.mediaObject = ref]

\* no object has two tracks and no track id is used twice
OneTrackEach(tracks) ==
    \A i, j \in 1..Len(tracks) :
        i # j => tracks[i].mediaObject # tracks[j].mediaObject /\ tracks[i].id # tracks[j].id

\* C9: a re-scan keeps the track of every media object, matched by object id or by
\* reference: its track id, name, isVisible, isLocked, isMuted and previews stay,
\* also when the reference for the id has changed; no object gets two tracks
C9_IdentityKept ==
    [][Rescanned =>
        /\ Kept(videoTracks, videoTracks', canvas', objs', "video")
        /\ Kept(audioTracks, audioTracks', canvas', objs', "audio")
        /\ OneTrackEach(videoTracks' \o audioTracks')]_vars

\* C9's case: a scan has given the track of a removed object to the new object
\* with the same id: the track is locked, hidden, muted, has its waveform, and
\* its name is not the one the new object would get
C9_Witness ==
    /\ Scanned
    /\ \E i \in 1..Len(audioTracks) :
        LET u == audioTracks[i] IN
            /\ u.mediaObject \in Range(canvas)
            /\ objs[u.mediaObject].id # NoId
            /\ u.name # NewAudioTrack(u.id, u.mediaObject, objs, media).name
            /\ u.isLocked /\ ~u.isVisible /\ u.isMuted
            /\ u.waveform.count > 0

(***************************************************************************)
(* Properties of the transport, checked under SpecTransport.               *)
(***************************************************************************)
\* the elements of the registered tracks
Registered == TrackObjects(Snapshot)

\* C2: after a seek to the requested time the transport's currentTime is the time
\* clamped to [0, duration], and every registered element holds that same time
C2_SeekClamped ==
    (lastOp.op = "seekToTime" /\ HasTracks /\ duration > 0)
        => /\ currentTime = Max(0, Min(lastOp.arg, duration))
           /\ \A r \in Registered : media[r].currentTime = currentTime

\* C2, the case the code gets wrong: a seek past the end of the timeline
C2_PastEnd == lastOp.op = "seekToTime" /\ HasTracks /\ duration > 0 /\ currentTime > duration

\* C3: after resetPlayback the transport is at 0 and stopped, and every registered
\* element is paused at its own time 0
C3_ResetStops ==
    lastOp.op = "resetPlayback"
        => /\ currentTime = 0
           /\ ~isPlaying
           /\ \A r \in Registered : media[r].paused /\ media[r].currentTime = 0

\* C3's case: reset while playing, from a time past the start, with a video and an
\* audio track registered
C3_Witness ==
    /\ lastOp = [op |-> "resetPlayback", arg |-> TicksPerSecond]
    /\ rendered.isPlaying
    /\ Len(videoTracks) = 1 /\ Len(audioTracks) = 1

\* C5: a frame update that reads a maximum element time at or past the duration
\* stops the transport, pauses the element of every track and requests no frame
C5_EndStops ==
    lastOp = [op |-> "updatePlayback", arg |-> 1]
        => /\ ~isPlaying
           /\ \A r \in Registered : media[r].paused
           /\ frames = {}

\* C5's case: playback of two tracks of different lengths ran to the end of the
\* longer one
C5_Witness ==
    /\ lastOp = [op |-> "updatePlayback", arg |-> 1]
    /\ rendered.isPlaying
    /\ Len(AllTracks) = 2
    /\ AllTracks[1].duration # AllTracks[2].duration
    /\ duration = MaxSeconds * TicksPerSecond
    /\ currentTime = duration

(***************************************************************************)
(* Properties of the frame loop, checked under SpecLoop.                   *)
(***************************************************************************)
\* C6: at most one frame callback is pending, and none once the stop of playback
\* has been rendered or the component has been unmounted
C6_LoopEndsWithPlayback ==
    /\ Cardinality(frames) <= 1
    /\ ~mounted => frames = {}
    /\ (~isPlaying /\ ~rendered.isPlaying) => frames = {}

\* C6's case: the loop is running after playback was toggled and the tracks and
\* the scale changed while playing
C6_Witness ==
    /\ isPlaying /\ rendered.isPlaying
    /\ Cardinality(frames) = 1
    /\ \E f \in frames : f.closure = rendered
    /\ scale # <<20, 1>>
    /\ Len(AllTracks) = 2

\* C6's other case: the component was unmounted while the loop was running
C6_Unmounted == ~mounted /\ isPlaying /\ rendered.isPlaying /\ HasTracks

(***************************************************************************)
(* Properties of the zoom, checked under SpecZoom.                         *)
(***************************************************************************)
\* C4: the scale is always within [5, 200]
C4_ScaleInRange == FracLeq(<<MinScale, 1>>, scale) /\ FracLeq(scale, <<MaxScale, 1>>)

\* C4, the case the code gets wrong: zoomToFit leaves a scale above 200
C4_FitAboveMax == lastOp.op = "zoomToFit" /\ ~FracLeq(scale, <<MaxScale, 1>>)

\* C4, the part the code gets right: zoomIn and zoomOut keep a scale that is
\* within [5, 200] within it
C4_ZoomKeepsRange ==
    [][((zoomIn \/ zoomOut) /\ C4_ScaleInRange) => C4_ScaleInRange']_vars

\* repeated zoomIn has reached exactly 200, where the button is disabled
C4_ZoomInReachesMax == lastOp.op = "zoomIn" /\ scale = <<MaxScale, 1>> /\ ~ENABLED zoomIn

\* repeated zoomOut has reached exactly 5, where the button is disabled
C4_ZoomOutReachesMin == lastOp.op = "zoomOut" /\ scale = <<MinScale, 1>> /\ ~ENABLED zoomOut

(***************************************************************************)
(* Properties of preview generation, checked under SpecGen.                *)
(***************************************************************************)
\* C7: at most one generation pass of a kind is running
C7_OnePass ==
    \A kind \in {"video", "audio"} : Cardinality({p \in passes : p.kind = kind}) <= 1

\* C7, the case the code gets wrong: two passes of one kind at the same time
C7_TwoPasses == \E p, q \in passes : p # q /\ p.kind = q.kind

PassEnds == {"SeekSettled", "SeekError", "DecodeDone", "DecodeFailed"}

\* the previews of the track with the id: thumbnails or waveform segments
Previews(trackId) ==
    LET v == {i \in 1..Len(videoTracks) : videoTracks[i].id = trackId}
        a == {i \in 1..Len(audioTracks) : audioTracks[i].id = trackId}
    IN IF v # {} THEN Len(videoTracks[CHOOSE i \in v : TRUE].thumbnails)
       ELSE IF a # {} THEN audioTracks[CHOOSE i \in a : TRUE].waveform.count
       ELSE 0

\* a pass for the track has just ended, by success or by an error
PassEnded ==
    /\ lastOp.op \in PassEnds
    /\ \A p \in passes : p.id # lastOp.arg
    /\ lastOp.arg \in TrackIds(videoTracks) \cup TrackIds(audioTracks)

\* C8: when a generation pass for a track ends, also by a seek or decode error,
\* the track's previews are not empty
C8_PassFillsTrack == PassEnded => Previews(lastOp.arg) > 0

\* C8, the case the code gets wrong: a seek error ends the pass of a video track
C8_EmptyAfterError == PassEnded /\ lastOp.op = "SeekError" /\ Previews(lastOp.arg) = 0

\* C8, the case the code gets right: a decode error leaves the stylized waveform
C8_AudioFallback ==
    /\ PassEnded /\ lastOp.op = "DecodeFailed"
    /\ \E i \in 1..Len(audioTracks) :
            audioTracks[i].id = lastOp.arg /\ audioTracks[i].waveform.source = "stylized"

(***************************************************************************)
(* Properties of the previews, checked under SpecPreview.                  *)
(***************************************************************************)
FracLess(x, y) == x[1] * y[2] < y[1] * x[2]

\* C11: the thumbnails a completed pass has stored for a video track of duration
\* d > 0 are max(5, ceil(d / 2 s)) frames, the i-th (from 0) taken for the time
\* i / (count - 1) * d: in increasing order, the first for 0 and the last for d
C11_ThumbnailTimes ==
    \A t \in Range(videoTracks) :
        LET d == t.duration
            count == Len(t.thumbnails)
        IN count > 0 =>
            /\ d > 0
            /\ count >= 5 /\ count * 2 * TicksPerSecond >= d
            /\ count = 5 \/ (count - 1) * 2 * TicksPerSecond < d
            /\ \A k \in 1..count :
                    t.thumbnails[k][1] * (count - 1) = (k - 1) * d * t.thumbnails[k][2]
            /\ \A k \in 1..(count - 1) : FracLess(t.thumbnails[k], t.thumbnails[k + 1])
            /\ t.thumbnails[1] = <<0, 1>> /\ t.thumbnails[count] = <<d, 1>>

\* C11's case: a video of 10 s has its 5 thumbnails, for 0, 2.5, 5, 7.5 and 10 s
C11_TenSeconds ==
    \E t \in Range(videoTracks) :
        /\ t.duration = 10 * TicksPerSecond
        /\ t.thumbnails = [k \in 1..5 |-> Frac((k - 1) * 5 * TicksPerSecond, 2)]

\* C11's other case: a video longer than 10 s has more than 5 thumbnails
C11_LongVideo ==
    \E t \in Range(videoTracks) : t.duration > 10 * TicksPerSecond /\ Len(t.thumbnails) > 5

\* C12: the waveform stored for an audio track of duration d has
\* max(150, ceil(15 d / 1 s)) segments, from decoded audio data or stylized
C12_WaveformSegments ==
    \A t \in Range(audioTracks) :
        LET d == t.duration
            count == t.waveform.count
        IN t.waveform.source # "none" =>
            /\ count >= 150 /\ count * TicksPerSecond >= 15 * d
            /\ count = 150 \/ (count - 1) * TicksPerSecond < 15 * d

\* C12's case: an audio clip longer than 10 s got the stylized waveform after its
\* decoding failed, with more than 150 segments
C12_LongStylized ==
    /\ lastOp.op = "DecodeFailed"
    /\ \E t \in Range(audioTracks) :
            /\ t.id = lastOp.arg
            /\ t.duration > 10 * TicksPerSecond
            /\ t.waveform.source = "stylized" /\ t.waveform.count > 150

\* C12's other cases: 150 segments for 10 s, decoded and stylized
C12_TenSecondsDecoded ==
    \E t \in Range(audioTracks) :
        /\ t.duration = 10 * TicksPerSecond
        /\ t.waveform = [count |-> 150, source |-> "decoded"]

C12_TenSecondsStylized ==
    \E t \in Range(audioTracks) :
        /\ t.duration = 10 * TicksPerSecond
        /\ t.waveform = [count |-> 150, source |-> "stylized"]

(***************************************************************************)
(* Properties of the track controls, checked under SpecControls.           *)
(***************************************************************************)
LockFlags == {"lockMovementX", "lockMovementY", "lockRotation", "lockScalingX", "lockScalingY"}

\* the track with the id
TrackOf(tracks, trackId) == tracks[CHOOSE i \in 1..Len(tracks) : tracks[i].id = trackId]

\* C13: toggling a track's lock flips the track's isLocked and inverts the movement,
\* rotation and scaling lock flags of the track's canvas object (so that a second
\* toggle returns all of them to their original values)
C13_LockInvertsFlags ==
    [][lastOp'.op = "toggleTrackLock" =>
        LET before == TrackOf(AllTracks, lastOp'.arg)
            after == TrackOf(AllTracks', lastOp'.arg)
            r == before.mediaObject
        IN /\ after.isLocked = ~before.isLocked
           /\ \A f \in LockFlags : flags'[r][f] = ~flags[r][f]]_vars

\* C13, the case the code gets wrong: the track is locked and its object is not:
\* the lock flags are as they were, only selectable and evented were cleared
C13_LockedButFree ==
    /\ lastOp.op = "toggleTrackLock"
    /\ LET t == TrackOf(AllTracks, lastOp.arg) IN
        /\ t.isLocked
        /\ \A f \in LockFlags : ~flags[t.mediaObject][f]
        /\ ~flags[t.mediaObject].selectable /\ ~flags[t.mediaObject].evented

\* C13, the part the code gets right: a second toggle has returned isLocked, and
\* with it selectable and evented, to the values of a new track
C13_TwiceRestores ==
    [][(lastOp.op = "toggleTrackLock" /\ lastOp'.op = "toggleTrackLock"
            /\ lastOp.arg = lastOp'.arg) =>
        LET t == TrackOf(AllTracks', lastOp'.arg) IN
            /\ ~t.isLocked
            /\ flags'[t.mediaObject].selectable /\ flags'[t.mediaObject].evented]_vars

\* C14: togglePlayback flips isPlaying, calls play() when starting and pause()
\* when stopping on the element of every track that is visible, and leaves the
\* element of every hidden track alone
C14_PlaysVisibleOnly ==
    [][lastOp'.op = "togglePlayback" =>
        /\ isPlaying' = ~isPlaying
        /\ \A t \in Range(AllTracks) :
              media'[t.mediaObject] =
                 IF ~t.isVisible THEN media[t.mediaObject]
                 ELSE IF isPlaying' THEN Play(media[t.mediaObject])
                 ELSE Pause(media[t.mediaObject])]_vars

\* C14, the case the code gets wrong: playback was started and the element of a
\* hidden track is playing
C14_HiddenPlays ==
    /\ lastOp.op = "togglePlayback" /\ isPlaying
    /\ \E t \in Range(AllTracks) : ~t.isVisible /\ ~media[t.mediaObject].paused

\* C14, the part the code gets right: the elements of the visible tracks follow
\* the transport
C14_VisibleFollow ==
    lastOp.op = "togglePlayback" =>
        \A t \in Range(AllTracks) : t.isVisible => media[t.mediaObject].paused = ~isPlaying

(***************************************************************************)
(* Properties of undo and redo, checked under SpecHistory.                 *)
(***************************************************************************)
\* C15: an undo right after a media object was uploaded restores the canvas to the
\* snapshot before the addition, and a redo right after an undo restores the
\* canvas, the undo stack and the redo stack to what the undo found, with as many
\* objects carrying a media element as before
C15_UndoRedoRestores ==
    /\ (lastOp.op = "handleUndo" /\ lastOp.arg.added # <<>>)
            => ToJSON(canvas, objs, flags) = lastOp.arg.added[1]
    /\ (lastOp.op = "handleRedo" /\ lastOp.arg # <<>>)
            => /\ ToJSON(canvas, objs, flags) = lastOp.arg[1].canvas
               /\ undoStack = lastOp.arg[1].undoStack
               /\ redoStack = lastOp.arg[1].redoStack
               /\ Cardinality(MediaOn(canvas)) = lastOp.arg[1].media

\* C15, the case the code gets wrong: undo and redo after an upload have restored
\* the stacks and the serialised canvas, and the object on the canvas carries no
\* media element: the canvas holds no media object any more
C15_ElementLost ==
    /\ lastOp.op = "handleRedo" /\ lastOp.arg # <<>>
    /\ lastOp.arg[1].added # <<>>
    /\ ToJSON(canvas, objs, flags) = lastOp.arg[1].canvas
    /\ undoStack = lastOp.arg[1].undoStack /\ redoStack = lastOp.arg[1].redoStack
    /\ lastOp.arg[1].media > 0 /\ MediaOn(canvas) = {}

\* C15, the other case the code gets wrong: the undo right after an upload has
\* restored the snapshot with the uploaded clip, which the upload saved twice
C15_UndoKeepsClip ==
    /\ lastOp.op = "handleUndo" /\ lastOp.arg.added # <<>>
    /\ lastOp.arg.undoStack[Len(lastOp.arg.undoStack)]
            = lastOp.arg.undoStack[Len(lastOp.arg.undoStack) - 1]
    /\ ToJSON(canvas, objs, flags) = lastOp.arg.canvas

(***************************************************************************)
(* Properties of the layer buttons, checked under SpecLayers.              *)
(***************************************************************************)
LayerOps == {"bringToFront", "sendToBack", "bringForward", "sendBackward"}

\* the list without the object
Others(objects, object) == SelectSeq(objects, LAMBDA r : r # object)

C16_OneStep ==
    /\ lastOp.op \in {"bringForward", "sendBackward"}
    /\ Len(canvas) >= 3
    /\ canvas # lastOp.arg.objects

C16_AtTheEdge ==
    /\ lastOp.op \in {"bringForward", "sendBackward"}
    /\ Len(canvas) >= 3
    /\ canvas = lastOp.arg.objects

(***************************************************************************)
(* The transport without tracks, checked under SpecTransport.              *)
(***************************************************************************)
\* C17: while the timeline has no tracks, togglePlayback, seekToTime and
\* resetPlayback leave isPlaying, currentTime and duration as they were
C17_NoTracksNoOp ==
    [][(~HasTracks /\ lastOp'.op \in {"togglePlayback", "seekToTime", "resetPlayback"})
            => UNCHANGED <<isPlaying, currentTime, duration>>]_vars

\* C17, the case the code gets wrong: a click on the empty timeline has moved the
\* playhead past the duration of 0
C17_SeekWithoutTracks ==
    /\ lastOp.op = "seekToTime"
    /\ ~HasTracks /\ rendered.videoTracks = <<>> /\ rendered.audioTracks = <<>>
    /\ duration = 0 /\ currentTime > 0

\* C17, what holds: the Play and Reset buttons are disabled without tracks, so
\* playback never starts with nothing to play
C17_ButtonsNeedTracks ==
    [][lastOp'.op \in {"togglePlayback", "resetPlayback"} => HasTracks]_vars

(***************************************************************************)
(* Deferred generation requests, checked under SpecGenFair.                *)
(***************************************************************************)
\* a request of generateVideoThumbnails ("video") or generateAudioWaveform
\* ("audio") for the track that found a pass running and waits for its retry
Deferred(fn, id) == \E tm \in timers : tm.fn = fn /\ tm.id = id /\ tm.busy

\* C18: every deferred generation request is eventually served: it leaves the
\* timers by starting its own generation pass
C18_DeferredServed ==
    \A fn \in {"video", "audio"} : \A id \in 1..MaxObjs :
        Deferred(fn, id) ~> ~Deferred(fn, id)

\* C18, the case the code gets wrong: the pass that was running has finished, no
\* pass is running and none is flagged, and the request is still deferred
C18_StillDeferred ==
    /\ \E fn \in {"video", "audio"} : \E id \in 1..MaxObjs : Deferred(fn, id)
    /\ passes = {}
    /\ ~isGeneratingThumbnails /\ ~isGeneratingWaveform
    /\ ~rendered.isGeneratingThumbnails /\ ~rendered.isGeneratingWaveform

\* C18, why: a retry calls the function of the same render, whose flag is still
\* set, so a request that was deferred once stays deferred
C18_OnceDeferred ==
    [][\A fn \in {"video", "audio"} : \A id \in 1..MaxObjs :
            Deferred(fn, id) => Deferred(fn, id)']_vars

(***************************************************************************)
(* The playback position after a thumbnail pass, checked under SpecGen.    *)
(***************************************************************************)
\* the pass p is awaiting before the step and has ended after it
Ended(p) == p \in passes /\ \A q \in passes' : q.pid # p.pid

\* C19: when a video thumbnail pass ends, by its last seek or by an error, the
\* currentTime of the video element is what it was when the pass started
C19_TimeRestored ==
    [][\A p \in passes :
            (p.kind = "video" /\ Ended(p))
                => media'[p.mediaObject].currentTime = p.originalTime]_vars

\* C19, the case the code gets wrong: an error has ended the only pass, and the
\* video, which was at 0 when the pass started, is left at a time point
C19_LeftAtTimePoint ==
    /\ lastOp.op = "SeekError"
    /\ passes = {}
    /\ \E i \in 1..Len(videoTracks) :
            /\ videoTracks[i].id = lastOp.arg
            /\ media[videoTracks[i].mediaObject].currentTime > 0

\* C19, what holds: a pass whose last seek settled, by `seeked' or by the
\* timeout, leaves the video where the pass found it
C19_SettledRestores ==
    [][\A p \in passes :
            (p.kind = "video" /\ Ended(p) /\ lastOp'.op = "SeekSettled")
                => media'[p.mediaObject].currentTime = p.originalTime]_vars

(***************************************************************************)
(* Tracks and the objects on the canvas, checked under SpecScan.           *)
(***************************************************************************)
\* the tracks correspond one-to-one to the media objects on the canvas
OneToOne ==
    /\ Objects(AllTracks) = MediaOn(canvas)
    /\ \A i, j \in 1..Len(AllTracks) :
            AllTracks[i].mediaObject = AllTracks[j].mediaObject => i = j

\* the step removes the media object ref from the canvas
Removes(ref) == ref \in MediaOn(canvas) /\ ref \notin Range(canvas')

\* the step removes the track of ref and no other track
DropsTrackOf(ref) ==
    /\ videoTracks' = SelectSeq(videoTracks, LAMBDA t : t.mediaObject # ref)
    /\ audioTracks' = SelectSeq(audioTracks, LAMBDA t : t.mediaObject # ref)

C20_StaleTrack ==
    /\ ~visible /\ ~Hooked
    /\ \E i \in 1..Len(AllTracks) : AllTracks[i].mediaObject \notin Range(canvas)

(***************************************************************************)
(* Zoom to fit and the scroll offset, checked under SpecZoom.              *)
(***************************************************************************)
\* the scroll offset the component displays and its mirror are both 0
ScrollReset == scrollLeft = <<0, 1>> /\ scrollPositionRef = <<0, 1>>

\* the duration d spans the pixels to the tick: d * scale = width
Spans(d, width) == scale[1] * d = width * TicksPerSecond * scale[2]

\* zoomToFit has changed nothing
FitChangedNothing ==
    /\ scale = lastOp.arg.scale
    /\ scrollLeft = lastOp.arg.scrollLeft
    /\ scrollPositionRef = lastOp.arg.scrollPositionRef

\* C21 as stated: after zoomToFit with a duration > 0 the scroll offset is 0 and
\* the duration spans the available width, clientWidth - 40; with a duration
\* of 0 zoomToFit changes nothing
C21_FitSpansViewport ==
    lastOp.op = "zoomToFit" =>
        IF lastOp.arg.duration > 0
        THEN ScrollReset /\ Spans(lastOp.arg.duration, clientWidth - 40)
        ELSE FitChangedNothing

\* C21, amended: after zoomToFit with a duration > 0 the scroll offset is 0; the
\* duration spans the available width when that takes at least 5 pixels per
\* second, and otherwise the scale is 5 pixels per second; with a duration of 0
\* zoomToFit changes nothing
C21_FitOrMinScale ==
    lastOp.op = "zoomToFit" =>
        IF lastOp.arg.duration > 0
        THEN /\ ScrollReset
             /\ IF MinScale * lastOp.arg.duration <= (clientWidth - 40) * TicksPerSecond
                THEN Spans(lastOp.arg.duration, clientWidth - 40)
                ELSE scale = <<MinScale, 1>>
        ELSE FitChangedNothing

\* C21, its case: the timeline was scrolled, and zoomToFit has reset the offset
\* and fitted the duration to the available width
C21_FittedFromScrolled ==
    /\ lastOp.op = "zoomToFit" /\ lastOp.arg.duration > 0
    /\ lastOp.arg.scrollPositionRef # <<0, 1>> /\ lastOp.arg.scrollLeft # <<0, 1>>
    /\ ScrollReset
    /\ Spans(lastOp.arg.duration, clientWidth - 40)

\* C21, the case the statement gets wrong: the clip is too long to fit at 5
\* pixels per second, and the timeline is wider than the available width
C21_TooLongToFit ==
    /\ lastOp.op = "zoomToFit" /\ lastOp.arg.duration > 0
    /\ scale = <<MinScale, 1>>
    /\ ~Spans(lastOp.arg.duration, clientWidth - 40)

\* C21, without a duration: zoomToFit has run on a scrolled, empty timeline
C21_NothingToFit ==
    /\ lastOp.op = "zoomToFit" /\ lastOp.arg.duration = 0
    /\ scrollPositionRef # <<0, 1>>

(***************************************************************************)
(* The history stacks, checked under SpecHistory.                          *)
(***************************************************************************)
\* C22: the undo stack holds no two equal consecutive snapshots
C22_NoEqualNeighbours ==
    \A i \in 1..(Len(undoStack) - 1) : undoStack[i] # undoStack[i + 1]

\* C22, the case the code gets wrong: an upload has put the snapshot of the canvas
\* with the new clip on the undo stack twice, from handleAdded and from its own
\* saveToHistory()
C22_SavedTwice ==
    /\ lastOp.op = "upload"
    /\ Len(undoStack) >= 3
    /\ undoStack[Len(undoStack)] = ToJSON(canvas, objs, flags)
    /\ undoStack[Len(undoStack) - 1] = ToJSON(canvas, objs, flags)
    /\ undoStack[Len(undoStack) - 2] = lastOp.arg

(***************************************************************************)
(* The limit of the history, checked under SpecLimit.                      *)
(***************************************************************************)
\* C23: the undo stack never holds more than 50 snapshots
C23_AtMostFifty == Len(undoStack) <= MaxHistory

\* C23, the case the code gets wrong: a redo has appended its snapshot to an undo
\* stack that already held 50
C23_FiftyOne ==
    /\ lastOp.op = "handleRedo"
    /\ Len(undoStack) = MaxHistory + 1

\* C23, what holds: saveToHistory leaves at most 50 snapshots on a stack of at
\* most 50, the newest on top
C23_SaveKeepsLimit ==
    [][(lastOp'.op \in {"handleModified", "upload"} /\ Len(undoStack) <= MaxHistory)
            => /\ Len(undoStack') <= MaxHistory
               /\ undoStack'[Len(undoStack')] = ToJSON(canvas', objs', flags')]_vars

(***************************************************************************)
(* The redo stack after a save, checked under SpecLimit.                   *)
(***************************************************************************)
\* C24: after a save to the history that is not part of an undo / redo (the
\* saveToHistory() of an upload or of a canvas event handler) the redo stack is
\* empty
C24_SaveClearsRedo ==
    lastOp.op \in {"handleModified", "upload"} => redoStack = <<>>

\* C24, the case the code gets wrong: handleModified has pushed a snapshot after an
\* undo and the undone snapshot is still there to redo
C24_RedoSurvivesEdit ==
    /\ lastOp.op = "handleModified"
    /\ Len(undoStack) = lastOp.arg + 1
    /\ redoStack # <<>>

(***************************************************************************)
(* The flag of undo and redo, checked under SpecRestore.                   *)
(***************************************************************************)
\* C25: isUndoRedoOperation is set for the whole of a restore of undo or redo and
\* false again once the restores have finished, so that the events of a restore
\* push no snapshot
C25_FlagCoversRestore == isUndoRedoOperation <=> restores # <<>>

\* C25, the case the code gets wrong: the callback of one restore has reset the
\* flag while a second one still waits for its images
C25_FlagLostToFirst ==
    /\ lastOp.op \in {"handleUndo", "handleRedo"}
    /\ restores # <<>>
    /\ ~isUndoRedoOperation

\* C25, the consequence, which fails with the flag: a step that finishes a restore
\* leaves the undo stack alone
C25_RestoreSavesNothing ==
    [][Len(restores') < Len(restores) => undoStack' = undoStack]_vars

\* C25, what holds: the flag is false whenever no restore is under way
C25_FlagReleased == restores = <<>> => ~isUndoRedoOperation

(***************************************************************************)
(* The object URLs of the uploads, checked under SpecHistory.              *)
(***************************************************************************)
\* the media objects that have been removed from the canvas
Removed == {r \in 1..Len(objs) : IsMedia(objs[r]) /\ r \notin Range(canvas)}

\* C26: the element of a removed video or audio object is paused and has no
\* source, and the object URL that the upload created for it is revoked
C26_RemovedIsReleased ==
    \A r \in Removed :
        /\ media[r].paused
        /\ media[r].src = NoSrc
        /\ objs[r].file => media[r].revoked

\* C26, the case the code gets wrong: an uploaded clip has been removed, its
\* element is paused and without a source, and its object URL is not revoked
C26_UrlLeaked ==
    \E r \in Removed :
        /\ objs[r].file
        /\ media[r].paused /\ media[r].src = NoSrc
        /\ ~media[r].revoked

\* C26, what holds: a removed element is paused and its source is cleared
C26_PausedAndCleared ==
    \A r \in Removed : media[r].paused /\ media[r].src = NoSrc

(***************************************************************************)
(* The history of the CanvasStore, checked under SpecStore.                *)
(***************************************************************************)
\* C27: addToHistory(s) removes the future history: the entries after the former
\* currentHistoryIndex are gone, s is the last entry, currentHistoryIndex is
\* history.length - 1, and redo has nothing to do
C27_FutureRemoved ==
    lastOp.op = "addToHistory" =>
        /\ history = Append(SubSeq(lastOp.arg.history, 1,
                                   lastOp.arg.currentHistoryIndex + 1), lastOp.arg.state)
        /\ history[Len(history)] = lastOp.arg.state
        /\ currentHistoryIndex = Len(history) - 1
        /\ ~(currentHistoryIndex < Len(history) - 1)

\* C27, its case: addToHistory has run after an undo that left entries behind the
\* index
C27_AddedAfterUndo ==
    /\ lastOp.op = "addToHistory"
    /\ lastOp.arg.last = "undo"
    /\ lastOp.arg.currentHistoryIndex < Len(lastOp.arg.history) - 1
    /\ Len(history) <= Len(lastOp.arg.history)

\* C27, redo after addToHistory: a redo that finds the index at the end leaves the
\* store as it is
C27_RedoIsNoOp ==
    [][(lastOp.op = "addToHistory" /\ lastOp'.op = "redo")
            => storeVars' = storeVars]_vars

\* C28: -1 <= currentHistoryIndex <= history.length - 1, with -1 exactly for an
\* empty history; undo at index 0 and redo at the last index change nothing; undo
\* and redo leave the history alone, and one after the other, each enabled, they
\* bring the index back
C28_IndexInHistory ==
    /\ -1 <= currentHistoryIndex /\ currentHistoryIndex <= Len(history) - 1
    /\ currentHistoryIndex = -1 <=> history = <<>>
    /\ lastOp.op \in {"undo", "redo"} => history = lastOp.arg.history
    /\ (lastOp.op = "undo" /\ lastOp.arg.currentHistoryIndex = 0)
            => currentHistoryIndex = 0
    /\ (lastOp.op = "redo"
            /\ lastOp.arg.currentHistoryIndex = Len(lastOp.arg.history) - 1)
            => currentHistoryIndex = lastOp.arg.currentHistoryIndex
    /\ (lastOp.op = "redo" /\ lastOp.arg.last = "undo" /\ lastOp.arg.lastIndex > 0)
            => currentHistoryIndex = lastOp.arg.lastIndex
    /\ (lastOp.op = "undo" /\ lastOp.arg.last = "redo"
            /\ lastOp.arg.lastIndex < Len(history) - 1)
            => currentHistoryIndex = lastOp.arg.lastIndex

\* C28, its cases: a redo has followed an undo from an index above 0, and an undo
\* at index 0 has run on a history with entries
C28_UndoneAndRedone ==
    /\ lastOp.op = "redo" /\ lastOp.arg.last = "undo"
    /\ lastOp.arg.lastIndex > 0
    /\ currentHistoryIndex = lastOp.arg.lastIndex

C28_UndoAtFirst ==
    /\ lastOp.op = "undo" /\ lastOp.arg.currentHistoryIndex = 0
    /\ Len(history) > 1

(***************************************************************************)
(* Previews that arrive late, checked under SpecOrphan.                    *)
(***************************************************************************)
\* C29: a step of a generation pass, its last one with the result included, keeps
\* the number of tracks and every track but for the thumbnails (video pass) or
\* the waveform (audio pass) of the track with the pass's id; a track that was
\* removed while the pass awaited does not come back
C29_ResultKeepsTracks ==
    [][/\ lastOp'.op \in {"SeekSettled", "SeekError"} =>
            /\ audioTracks' = audioTracks
            /\ Len(videoTracks') = Len(videoTracks)
            /\ \A i \in 1..Len(videoTracks) :
                    \/ videoTracks'[i] = videoTracks[i]
                    \/ /\ videoTracks[i].id = lastOp'.arg
                       /\ videoTracks'[i] = [videoTracks[i] EXCEPT
                                !.thumbnails = videoTracks'[i].thumbnails]
       /\ lastOp'.op \in {"DecodeDone", "DecodeFailed"} =>
            /\ videoTracks' = videoTracks
            /\ Len(audioTracks') = Len(audioTracks)
            /\ \A i \in 1..Len(audioTracks) :
                    \/ audioTracks'[i] = audioTracks[i]
                    \/ /\ audioTracks[i].id = lastOp'.arg
                       /\ audioTracks'[i] = [audioTracks[i] EXCEPT
                                !.waveform = audioTracks'[i].waveform]]_vars

\* C29, its case: a pass has ended whose track had been removed, on a timeline
\* that holds another track
C29_ResultOfRemovedTrack ==
    /\ lastOp.op \in {"SeekSettled", "DecodeDone", "DecodeFailed"}
    /\ \A p \in passes : p.id # lastOp.arg
    /\ lastOp.arg \notin TrackIds(AllTracks)
    /\ AllTracks # <<>>
    /\ rendered.visible

\* C29, the same for the thumbnails of a video
C29_ThumbnailsOfRemovedTrack ==
    /\ lastOp.op = "SeekSettled"
    /\ \A p \in passes : p.id # lastOp.arg
    /\ lastOp.arg \notin TrackIds(AllTracks)
    /\ rendered.visible

(***************************************************************************)
(* The busy flags of the preview generation, checked under SpecGenFair.    *)
(***************************************************************************)
\* a generation pass of the kind is awaiting
InProgress(kind) == \E p \in passes : p.kind = kind

\* C30: a busy flag is set only while a pass of its kind is in progress, and a
\* flag that is set is cleared again: every pass that ends, by its result, by an
\* error or by the timeouts of its seeks, clears the flag it set
C30_BusyFlagsReleased ==
    /\ [](isGeneratingThumbnails => InProgress("video"))
    /\ [](isGeneratingWaveform => InProgress("audio"))
    /\ isGeneratingThumbnails ~> ~isGeneratingThumbnails
    /\ isGeneratingWaveform ~> ~isGeneratingWaveform

\* C30, its cases: a video pass has ended with an error, and an audio pass whose
\* decoding failed has ended, and no flag is set
C30_ReleasedAfterError ==
    /\ lastOp.op = "SeekError"
    /\ passes = {}
    /\ ~isGeneratingThumbnails /\ ~isGeneratingWaveform

C30_ReleasedAfterDecodeFailed ==
    /\ lastOp.op = "DecodeFailed"
    /\ passes = {}
    /\ ~isGeneratingThumbnails /\ ~isGeneratingWaveform

\* C30, an audio object without a file: the pass has returned early, the track has
\* its stylized waveform and the flag is not set
C30_ReleasedWithoutFile ==
    /\ \E i \in 1..Len(audioTracks) :
            /\ ~objs[audioTracks[i].mediaObject].file
            /\ audioTracks[i].waveform.source = "stylized"
    /\ ~isGeneratingWaveform


====
